---- MODULE Spec2Model ----
(***************************************************************************)
(* A model of the HMIS medallion pipeline (run.main: read Bronze tables,   *)
(* silver.build_silver, gold.build_gold_client_program_readiness,          *)
(* gold.build_gold_client_readiness_current).                              *)
(*                                                                         *)
(* Representation.  A text cell is a sequence of Unicode code points, so   *)
(* that pandas' string order is the lexicographic order of the sequences.  *)
(* An optional cell (a number, a date, a merged-in text) is <<>> when it   *)
(* is absent (NaN / NaT / NA) and <<v>> when it holds v.  A table is a     *)
(* sequence of records, in row order.  Dates are day ordinals.             *)
(***************************************************************************)
EXTENDS Integers, Sequences, FiniteSets, TLC

\* ---------------------------------------------------------------- bounds
MaxPcdRows == 3
MaxRankRows == 2
MaxEventRows == 3
MaxCesRows == 3
MaxFiles == 3

\* ------------------------------------------------------------ text cells
BOM == 65279

NA == <<>>
Some(v) == <<v>>
IsNA(x) == x = <<>>
Val(x) == x[1]

\* str.isspace for the characters the inputs use: space, tab, LF, CR, NBSP
IsSpace(c) == c \in {32, 9, 10, 13, 160}

Min2(a, b) == IF a <= b THEN a ELSE b

\* Python's string order: code point by code point, a proper prefix first
StrLess(a, b) ==
    \E k \in 1..(Min2(Len(a), Len(b)) + 1) :
        /\ \A j \in 1..(k - 1) : a[j] = b[j]
        /\ \/ (k > Len(a) /\ k <= Len(b))
           \/ (k <= Len(a) /\ k <= Len(b) /\ a[k] < b[k])

StrLeq(a, b) == a = b \/ StrLess(a, b)

\* str.strip(): drop leading and trailing whitespace
Strip(s) ==
    LET keep == {i \in 1..Len(s) : ~IsSpace(s[i])}
    IN  IF keep = {} THEN <<>>
        ELSE LET lo == CHOOSE i \in keep : \A j \in keep : i <= j
                 hi == CHOOSE i \in keep : \A j \in keep : j <= i
             IN  SubSeq(s, lo, hi)

\* str.replace(BOM, "")
RemoveBOM(s) == SelectSeq(s, LAMBDA c : c # BOM)

\* str.upper() on ASCII letters
Upper(s) == [i \in 1..Len(s) |-> IF s[i] >= 97 /\ s[i] <= 122 THEN s[i] - 32 ELSE s[i]]

\* silver._canon_text
_canon_text(s) == Strip(RemoveBOM(s))

YES == <<89, 69, 83>>

\* ---------------------------------------------------------------- tables
\* three-way comparisons: -1 when a sorts first, 0 on a tie, 1 when b sorts first
CmpStrAsc(a, b) == IF StrLess(a, b) THEN -1 ELSE IF a = b THEN 0 ELSE 1
CmpIntDesc(a, b) == IF a > b THEN -1 ELSE IF a = b THEN 0 ELSE 1
\* descending on an optional cell, na_position="last"
CmpOptDesc(a, b) ==
    IF IsNA(a) /\ IsNA(b) THEN 0
    ELSE IF IsNA(a) THEN 1
    ELSE IF IsNA(b) THEN -1
    ELSE CmpIntDesc(Val(a), Val(b))

\* the first key that decides, as pandas' lexsort over several columns
FirstNonZero(cs) ==
    LET nz == SelectSeq(cs, LAMBDA c : c # 0)
    IN  IF nz = <<>> THEN 0 ELSE nz[1]

\* DataFrame.sort_values on several columns is a stable sort: rows that tie
\* on every sort column keep their relative order.  Before(a, b) is TRUE when
\* a sorts strictly before b.
StableSort(s, Before(_, _)) ==
    LET n == Len(s)
        pos(i) == 1 + Cardinality({j \in 1..n :
                        \/ Before(s[j], s[i])
                        \/ (~Before(s[i], s[j]) /\ j < i)})
    IN  [k \in 1..n |-> s[CHOOSE i \in 1..n : pos(i) = k]]

\* the concatenation of a sequence of sequences, by halves
RECURSIVE Concat(_)
Concat(ss) ==
    IF Len(ss) = 0 THEN <<>>
    ELSE IF Len(ss) = 1 THEN ss[1]
    ELSE Concat(SubSeq(ss, 1, Len(ss) \div 2)) \o Concat(SubSeq(ss, Len(ss) \div 2 + 1, Len(ss)))

RECURSIVE SumSeq(_)
SumSeq(s) == IF s = <<>> THEN 0 ELSE Head(s) + SumSeq(Tail(s))

Range(s) == {s[i] : i \in 1..Len(s)}

SameKey(a, b) == a.client_id = b.client_id /\ a.program_name = b.program_name
KeyOf(r) == <<r.client_id, r.program_name>>

\* drop_duplicates(..., keep=False): every row of a duplicated key is dropped
DropDuplicatesKeepNone(s) ==
    SelectSeq(s, LAMBDA r : Cardinality({i \in 1..Len(s) : SameKey(s[i], r)}) = 1)

\* DataFrame.drop_duplicates(["client_id", "program_name"], keep="first")
DropDuplicatesByKey(s) ==
    LET first == {i \in 1..Len(s) : \A j \in 1..(i - 1) : ~SameKey(s[j], s[i])}
        idx(k) == CHOOSE i \in first : Cardinality({j \in first : j < i}) = k - 1
    IN  [k \in 1..Cardinality(first) |-> s[idx(k)]]

\* DataFrame.drop_duplicates(["client_id"], keep="first")
DropDuplicatesByClient(s) ==
    LET first == {i \in 1..Len(s) : \A j \in 1..(i - 1) : s[j].client_id # s[i].client_id}
        idx(k) == CHOOSE i \in first : Cardinality({j \in first : j < i}) = k - 1
    IN  [k \in 1..Cardinality(first) |-> s[idx(k)]]

\* the distinct values of a set of text keys, ascending (groupby sorts its keys)
RECURSIVE SortedKeys(_)
SortedKeys(K) ==
    IF K = {} THEN <<>>
    ELSE LET m == CHOOSE k \in K : \A o \in K :
                     \/ k = o
                     \/ StrLess(k[1], o[1])
                     \/ (k[1] = o[1] /\ \E p \in 2..Len(k) :
                            /\ \A q \in 2..(p - 1) : k[q] = o[q]
                            /\ StrLess(k[p], o[p]))
         IN  <<m>> \o SortedKeys(K \ {m})

\* ------------------------------------------------- silver: enrollments
\* silver.EXCLUDE_PROGRAMS; the three programme names are abbreviated to
\* "WD", "WF", "WI" (Downtown Access Center, Problem-Solving Families,
\* Problem-Solving Individuals)
EXCLUDE_PROGRAMS == {<<87, 68>>, <<87, 70>>, <<87, 73>>}

\* a cell of a numeric column: <<>> (NaN), <<n>> (the number n), or a text of
\* two or more code points that is not a number
IsNumber(c) == Len(c) = 1

\* pd.to_numeric(errors="coerce"): a text that is not a number becomes NaN
to_numeric(c) == IF IsNumber(c) THEN c ELSE NA

\* pd.to_datetime(errors="coerce") on a cell that is a day ordinal or is absent
_to_date(c) == c

\* a cell of a column the table may lack: the cell, or NA for a table without
\* the column (a table's columns are the fields of its rows)
col(r, name) == IF name \in DOMAIN r THEN r[name] ELSE NA

\* a column of `required` is not in df.columns
missing_columns(df, required) == \E i \in 1..Len(df) : required \ DOMAIN df[i] # {}

\* the columns build_program_client_data reads without testing for them
PCD_REQUIRED == {"Clients_Unique_Identifier", "Programs_Full_Name"}

\* required = {"client_id", "program_name", "month", "case_note_count"} (and
\* "services_count"), under the names the raw files give them
EVENT_REQUIRED == {"Clients_Unique_Identifier", "Programs_Full_Name", "Month", "Count"}

\* silver.build_program_client_data, the cleaned table
pcd_clean_of(pcd_raw) ==
    LET canon == [i \in 1..Len(pcd_raw) |->
                    pcd_raw[i] @@
                    [client_id |-> _canon_text(pcd_raw[i].Clients_Unique_Identifier),
                     program_name |-> _canon_text(pcd_raw[i].Programs_Full_Name)]]
        kept == SelectSeq(canon, LAMBDA r : r.Programs_Full_Name \notin EXCLUDE_PROGRAMS)
    IN  [i \in 1..Len(kept) |->
            [kept[i] EXCEPT !.Enrollments_Project_Start_Date = _to_date(@)] @@
            [enrollment_active_in_project |-> Upper(_canon_text(kept[i].Enrollments_Active_in_Project)),
             enrollment_deleted_flag |-> Upper(_canon_text(kept[i].Enrollments_Deleted)),
             enrollment_days_in_project |-> to_numeric(col(kept[i], "Enrollments_Days_in_Project"))]]

\* the duplicate summary: groupby(key).size(), row_count > 1, sorted by
\* row_count descending, then client_id, program_name ascending
dupe_summary_of(df) ==
    LET keys == SortedKeys({KeyOf(df[i]) : i \in 1..Len(df)})
        sized == [k \in 1..Len(keys) |->
                    [client_id |-> keys[k][1], program_name |-> keys[k][2],
                     row_count |-> Cardinality({i \in 1..Len(df) : KeyOf(df[i]) = keys[k]})]]
        dup == SelectSeq(sized, LAMBDA g : g.row_count > 1)
        Before(a, b) == FirstNonZero(<<CmpIntDesc(a.row_count, b.row_count),
                                       CmpStrAsc(a.client_id, b.client_id),
                                       CmpStrAsc(a.program_name, b.program_name)>>) < 0
    IN  StableSort(dup, Before)

\* the detail table with duplicated(key, keep="first"): the discarded rows only
_pcd_dupe_detail_discarded_only(df, dupe_summary) ==
    LET dup == {i \in 1..Len(df) : \E j \in 1..(i - 1) : SameKey(df[j], df[i])}
        idx(k) == CHOOSE i \in dup : Cardinality({j \in dup : j < i}) = k - 1
    IN  [k \in 1..Cardinality(dup) |->
            [client_id |-> df[idx(k)].client_id,
             program_name |-> df[idx(k)].program_name,
             active_in_project |-> df[idx(k)].Enrollments_Active_in_Project,
             enrollment_deleted |-> df[idx(k)].Enrollments_Deleted,
             days_in_project |-> col(df[idx(k)], "Enrollments_Days_in_Project"),
             project_start_date |-> df[idx(k)].Enrollments_Project_Start_Date,
             enrollment_deleted_flag |->
                 IF Upper(df[idx(k)].Enrollments_Deleted) = YES THEN 1 ELSE 0,
             row_count |-> Some(Cardinality({i \in 1..Len(df) : SameKey(df[i], df[idx(k)])}))]]

\* silver._pcd_dupe_detail_standard
_pcd_dupe_detail_standard(df, dupe_summary) ==
    LET detail == SelectSeq(df, LAMBDA r :
                     Cardinality({i \in 1..Len(df) : SameKey(df[i], r)}) > 1)
        \* detail.merge(dupe_summary, on=key, how="left")
        merged == Concat([i \in 1..Len(detail) |->
                     LET m == SelectSeq(dupe_summary, LAMBDA g : SameKey(g, detail[i]))
                     IN  IF m = <<>> THEN <<detail[i] @@ [row_count |-> NA]>>
                         ELSE [k \in 1..Len(m) |-> detail[i] @@ [row_count |-> Some(m[k].row_count)]]])
        out == [i \in 1..Len(merged) |->
                   [client_id |-> _canon_text(merged[i].client_id),
                    program_name |-> _canon_text(merged[i].program_name),
                    active_in_project |-> merged[i].Enrollments_Active_in_Project,
                    enrollment_deleted |-> merged[i].Enrollments_Deleted,
                    days_in_project |-> col(merged[i], "Enrollments_Days_in_Project"),
                    project_start_date |-> merged[i].Enrollments_Project_Start_Date,
                    enrollment_deleted_flag |->
                        IF Upper(merged[i].Enrollments_Deleted) = YES THEN 1 ELSE 0,
                    row_count |-> merged[i].row_count]]
        Before(a, b) == FirstNonZero(<<CmpStrAsc(a.client_id, b.client_id),
                                       CmpStrAsc(a.program_name, b.program_name),
                                       CmpOptDesc(a.project_start_date, b.project_start_date)>>) < 0
    IN  IF detail = <<>> THEN <<>> ELSE StableSort(out, Before)

\* the rank columns of silver.choose_current_client_program
active_rank(r) == IF r.enrollment_active_in_project = YES THEN 1 ELSE 0
deleted_rank(r) == IF r.enrollment_deleted_flag # YES THEN 1 ELSE 0
start_rank(r) == r.Enrollments_Project_Start_Date
days_rank(r) == IF IsNA(r.enrollment_days_in_project) THEN -1 ELSE Val(r.enrollment_days_in_project)

\* the sort with deleted_rank ahead of active_rank
ChooseBeforeDeletedFirst(a, b) ==
    FirstNonZero(<<CmpStrAsc(a.client_id, b.client_id),
                   CmpStrAsc(a.program_name, b.program_name),
                   CmpIntDesc(deleted_rank(a), deleted_rank(b)),
                   CmpIntDesc(active_rank(a), active_rank(b)),
                   CmpOptDesc(start_rank(a), start_rank(b)),
                   CmpIntDesc(days_rank(a), days_rank(b))>>) < 0

\* the sort order of silver.choose_current_client_program: client_id and
\* program_name ascending, then active_rank, deleted_rank, start_rank,
\* days_rank descending
ChooseBefore(a, b) ==
    FirstNonZero(<<CmpStrAsc(a.client_id, b.client_id),
                   CmpStrAsc(a.program_name, b.program_name),
                   CmpIntDesc(active_rank(a), active_rank(b)),
                   CmpIntDesc(deleted_rank(a), deleted_rank(b)),
                   CmpOptDesc(start_rank(a), start_rank(b)),
                   CmpIntDesc(days_rank(a), days_rank(b))>>) < 0

\* a sort that leaves tied rows in reverse input order
choose_sorted_unstable(df) ==
    StableSort([i \in 1..Len(df) |-> df[Len(df) + 1 - i]], ChooseBefore)

\* df.sort_values([...], ascending=[True, True, False, False, False, False])
choose_sorted(df) == StableSort(df, ChooseBefore)

\* silver.choose_current_client_program
choose_current_client_program(pcd_clean) == DropDuplicatesByKey(choose_sorted(pcd_clean))

\* ------------------------------------------------------ silver: events
IsDigit(c) == c >= 48 /\ c <= 57

\* str.match(r"^\d{4}-\d{2}$") on a canonical month cell
IsMonthToken(s) ==
    /\ Len(s) = 7
    /\ \A i \in {1, 2, 3, 4, 6, 7} : IsDigit(s[i])
    /\ s[5] = 45

\* silver._pull_month: pull_date[:7]
_pull_month(pull_date) == SubSeq(pull_date, 1, Min2(7, Len(pull_date)))

\* an event table after the rename and _canon_text of its three key columns
event_canon(raw) ==
    [i \in 1..Len(raw) |->
        [client_id |-> _canon_text(raw[i].Clients_Unique_Identifier),
         program_name |-> _canon_text(raw[i].Programs_Full_Name),
         month |-> _canon_text(raw[i].Month),
         count |-> raw[i].Count]]

\* the month test applied to the first row only
bad_month_first(raw) == Len(raw) > 0 /\ ~IsMonthToken(event_canon(raw)[1].month)

\* bad_month.any(): the ValueError of build_case_notes_monthly and
\* build_services_monthly
bad_month_any(raw) == \E i \in 1..Len(raw) : ~IsMonthToken(event_canon(raw)[i].month)

\* pd.to_numeric(errors="coerce").fillna(0).astype("int64")
count_int(c) == IF IsNumber(c) THEN Val(c) ELSE 0

TripleOf(r) == <<r.client_id, r.program_name, r.month>>

\* one row per triple that keeps the count of the triple's first row
monthly_first(raw) ==
    LET df == event_canon(raw)
        keys == SortedKeys({TripleOf(df[i]) : i \in 1..Len(df)})
    IN  [k \in 1..Len(keys) |->
            [client_id |-> keys[k][1], program_name |-> keys[k][2], month |-> keys[k][3],
             count |-> count_int(SelectSeq(df, LAMBDA r : TripleOf(r) = keys[k])[1].count)]]

\* groupby(["client_id", "program_name", "month"], as_index=False).agg(sum)
monthly_sum(raw) ==
    LET df == event_canon(raw)
        keys == SortedKeys({TripleOf(df[i]) : i \in 1..Len(df)})
    IN  [k \in 1..Len(keys) |->
            [client_id |-> keys[k][1], program_name |-> keys[k][2], month |-> keys[k][3],
             count |-> SumSeq([j \in 1..Len(SelectSeq(df, LAMBDA r : TripleOf(r) = keys[k])) |->
                          count_int(SelectSeq(df, LAMBDA r : TripleOf(r) = keys[k])[j].count)])]]

\* silver.build_case_notes_monthly, the monthly table (no staff column in the input)
build_case_notes_monthly(case_notes_raw) ==
    LET m == monthly_sum(case_notes_raw)
    IN  [i \in 1..Len(m) |->
            [client_id |-> m[i].client_id, program_name |-> m[i].program_name,
             month |-> m[i].month, case_note_count |-> m[i].count]]

\* silver.build_case_notes_monthly, the duplicate-input report qa_dupes
case_notes_qa_dupes(case_notes_raw) ==
    LET df == event_canon(case_notes_raw)
        keys == SortedKeys({TripleOf(df[i]) : i \in 1..Len(df)})
        sized == [k \in 1..Len(keys) |->
                    [client_id |-> keys[k][1], program_name |-> keys[k][2], month |-> keys[k][3],
                     raw_row_count |-> Cardinality({i \in 1..Len(df) : TripleOf(df[i]) = keys[k]})]]
    IN  SelectSeq(sized, LAMBDA g : g.raw_row_count > 1)

\* silver.build_services_monthly
build_services_monthly(services_raw) ==
    LET m == monthly_sum(services_raw)
    IN  [i \in 1..Len(m) |->
            [client_id |-> m[i].client_id, program_name |-> m[i].program_name,
             month |-> m[i].month, services_count |-> m[i].count]]

\* the filter with a strict comparison: df["month"] < pull_month
asof_filter_strict(df_monthly, pull_date) ==
    SelectSeq(df_monthly, LAMBDA r : StrLess(r.month, _pull_month(pull_date)))

\* no filter on the month at all
asof_filter_none(df_monthly, pull_date) == df_monthly

\* the row filter of latest_month_asof_pull: df["month"] <= pull_month
asof_filter(df_monthly, pull_date) ==
    SelectSeq(df_monthly, LAMBDA r : StrLeq(r.month, _pull_month(pull_date)))

\* sort_values(["client_id", "program_name", "month"], ascending=[True, True, False])
AsofBefore(a, b) ==
    FirstNonZero(<<CmpStrAsc(a.client_id, b.client_id),
                   CmpStrAsc(a.program_name, b.program_name),
                   CmpStrAsc(b.month, a.month)>>) < 0

\* silver.latest_month_asof_pull
latest_month_asof_pull(df_monthly, pull_date, value_col, prefix) ==
    LET latest == DropDuplicatesByKey(StableSort(asof_filter(df_monthly, pull_date), AsofBefore))
    IN  [i \in 1..Len(latest) |->
            [client_id |-> latest[i].client_id, program_name |-> latest[i].program_name] @@
            ((prefix \o "_month") :> latest[i].month) @@
            ((prefix \o "_count") :> latest[i][value_col])]

\* ------------------------------------------------- silver: assessments
IsLeap(y) == (y % 4 = 0 /\ y % 100 # 0) \/ y % 400 = 0

\* the proleptic Gregorian ordinal of a date (datetime.date.toordinal)
Ordinal(y, m, d) ==
    365 * (y - 1) + ((y - 1) \div 4) - ((y - 1) \div 100) + ((y - 1) \div 400)
    + <<0, 31, 59, 90, 120, 151, 181, 212, 243, 273, 304, 334>>[m]
    + (IF m > 2 /\ IsLeap(y) THEN 1 ELSE 0) + d

\* pd.to_datetime(pull_date).date() on a "YYYY-MM-DD" token
_pull_date(pull_date) ==
    Ordinal((pull_date[1] - 48) * 1000 + (pull_date[2] - 48) * 100
                + (pull_date[3] - 48) * 10 + (pull_date[4] - 48),
            (pull_date[6] - 48) * 10 + (pull_date[7] - 48),
            (pull_date[9] - 48) * 10 + (pull_date[10] - 48))

\* df[assessment_date.notna() & (assessment_date <= pull_dt)]
ces_asof_filter(df, pull_date) ==
    SelectSeq(df, LAMBDA r : ~IsNA(r.assessment_date)
                             /\ Val(r.assessment_date) <= _pull_date(pull_date))

\* sort_values(["client_id", "assessment_date", "assessment_id", "assessment_score"],
\*             ascending=[True, False, False, False])
HmisBefore(a, b) ==
    FirstNonZero(<<CmpStrAsc(a.client_id, b.client_id),
                   CmpOptDesc(a.assessment_date, b.assessment_date),
                   CmpOptDesc(a.assessment_id, b.assessment_id),
                   CmpOptDesc(a.assessment_score, b.assessment_score)>>) < 0

\* silver.build_ces_hmis_latest
build_ces_hmis_latest(ces_hmis_raw, pull_date) ==
    LET df == [i \in 1..Len(ces_hmis_raw) |->
                  [client_id |-> _canon_text(ces_hmis_raw[i].Clients_Unique_Identifier),
                   survey_name |-> _canon_text(ces_hmis_raw[i].Assessment_Name),
                   assessment_date |-> _to_date(ces_hmis_raw[i].Assessment_Date),
                   assessment_score |-> to_numeric(ces_hmis_raw[i].Assessment_Score),
                   assessment_id |-> to_numeric(ces_hmis_raw[i].Assessment_ID),
                   is_coordinated_entry |-> ces_hmis_raw[i].Is_Coordinated_Entry,
                   assessing_agency |-> ces_hmis_raw[i].Assessing_Agency_Name]]
        out == DropDuplicatesByClient(StableSort(ces_asof_filter(df, pull_date), HmisBefore))
    IN  [i \in 1..Len(out) |->
            [client_id |-> out[i].client_id,
             survey_name |-> out[i].survey_name,
             assessment_date |-> out[i].assessment_date,
             assessment_score |-> out[i].assessment_score,
             is_coordinated_entry |-> out[i].is_coordinated_entry,
             assessing_agency |-> out[i].assessing_agency,
             ces_source |-> "HMIS"]]

\* sort_values(["client_id", "assessment_date", "last_updated", "assessment_score"],
\*             ascending=[True, False, False, False])
ExternalBefore(a, b) ==
    FirstNonZero(<<CmpStrAsc(a.client_id, b.client_id),
                   CmpOptDesc(a.assessment_date, b.assessment_date),
                   CmpOptDesc(a.last_updated, b.last_updated),
                   CmpOptDesc(a.assessment_score, b.assessment_score)>>) < 0

\* silver.build_ces_external_latest
build_ces_external_latest(ces_external_raw, pull_date) ==
    LET df == [i \in 1..Len(ces_external_raw) |->
                  [client_id |-> _canon_text(ces_external_raw[i].Clients_Unique_Identifier),
                   survey_name |-> _canon_text(ces_external_raw[i].Survey_Name),
                   assessment_date |-> _to_date(ces_external_raw[i].Latest_CES_Assessment_Date),
                   assessment_score |-> to_numeric(ces_external_raw[i].Assessment_Score),
                   last_updated |-> _to_date(ces_external_raw[i].Last_Updated)]]
        out == DropDuplicatesByClient(StableSort(ces_asof_filter(df, pull_date), ExternalBefore))
    IN  [i \in 1..Len(out) |->
            [client_id |-> out[i].client_id,
             survey_name |-> out[i].survey_name,
             assessment_date |-> out[i].assessment_date,
             assessment_score |-> out[i].assessment_score,
             ces_source |-> "EXTERNAL"]]

\* the columns of the two latest-assessment tables, and reindex(columns=cols)
ExternalCols == {"client_id", "survey_name", "assessment_date", "assessment_score", "ces_source"}
HmisCols == ExternalCols \cup {"is_coordinated_entry", "assessing_agency"}
Reindex(r, cols) == [c \in cols |-> IF c \in DOMAIN r THEN r[c] ELSE NA]

\* every HMIS row kept, also those of clients the external table holds
hmis_keep_all(ext, hmis) == hmis

\* hmis[~hmis["client_id"].isin(ext_ids)]
hmis_keep_of(ext, hmis) ==
    SelectSeq(hmis, LAMBDA h : \A i \in 1..Len(ext) : ext[i].client_id # h.client_id)

\* the union with the priority reversed: HMIS rows first, external rows only
\* for the clients HMIS lacks
unify_hmis_over_external(ces_external_latest, ces_hmis_latest) ==
    IF Len(ces_external_latest) = 0 THEN ces_hmis_latest
    ELSE IF Len(ces_hmis_latest) = 0 THEN ces_external_latest
    ELSE LET ext_keep == SelectSeq(ces_external_latest, LAMBDA e :
                            \A i \in 1..Len(ces_hmis_latest) :
                                ces_hmis_latest[i].client_id # e.client_id)
             cols == ExternalCols \cup HmisCols
         IN  [i \in 1..Len(ces_hmis_latest) |-> Reindex(ces_hmis_latest[i], cols)]
             \o [i \in 1..Len(ext_keep) |-> Reindex(ext_keep[i], cols)]

\* silver.unify_ces_external_over_hmis
unify_ces_external_over_hmis(ces_external_latest, ces_hmis_latest) ==
    IF Len(ces_external_latest) = 0 THEN ces_hmis_latest
    ELSE IF Len(ces_hmis_latest) = 0 THEN ces_external_latest
    ELSE LET hmis_keep == hmis_keep_of(ces_external_latest, ces_hmis_latest)
             cols == ExternalCols \cup HmisCols
         IN  [i \in 1..Len(ces_external_latest) |-> Reindex(ces_external_latest[i], cols)]
             \o [i \in 1..Len(hmis_keep) |-> Reindex(hmis_keep[i], cols)]

\* ------------------------------------------------------------ gold: fact
\* df.merge(right, on=["client_id", "program_name"], how="left"): every left
\* row once per matching right row, in left order, or once with absent cells
merge_on_key(df, right) ==
    LET cols == (DOMAIN right[1]) \ {"client_id", "program_name"}
    IN  Concat([i \in 1..Len(df) |->
            LET m == SelectSeq(right, LAMBDA r : SameKey(r, df[i]))
            IN  IF m = <<>> THEN <<df[i] @@ [c \in cols |-> NA]>>
                ELSE [k \in 1..Len(m) |-> df[i] @@ [c \in cols |-> Some(m[k][c])]]])

\* the assessment columns a fact row takes from a matching assessment row
ces_cells(m) ==
    [survey_name |-> Some(m.survey_name),
     assessment_date |-> m.assessment_date,
     assessment_score |-> m.assessment_score,
     ces_source |-> Some(m.ces_source)]

\* df.merge(ces, on=["client_id"], how="left", suffixes=("", "_ces"))
merge_ces(df, ces) ==
    Concat([i \in 1..Len(df) |->
        LET m == SelectSeq(ces, LAMBDA r : r.client_id = df[i].client_id)
        IN  IF m = <<>>
            THEN <<df[i] @@ [survey_name |-> NA, assessment_date |-> NA,
                             assessment_score |-> NA, ces_source |-> NA]>>
            ELSE [k \in 1..Len(m) |-> df[i] @@ ces_cells(m[k])]])

\* the key columns re-stripped: astype(str).str.strip()
gold_keys(t) ==
    [i \in 1..Len(t) |-> [t[i] EXCEPT !.client_id = Strip(@), !.program_name = Strip(@)]]

\* the three left joins of build_gold_client_program_readiness
gold_joined(spine_client_program, case_notes_latest, services_latest, ces_unified_latest) ==
    LET df0 == gold_keys(spine_client_program)
        df1 == IF Len(case_notes_latest) > 0
               THEN merge_on_key(df0, gold_keys(case_notes_latest))
               ELSE [i \in 1..Len(df0) |-> df0[i] @@ [case_notes_month |-> NA, case_notes_count |-> NA]]
        df2 == IF Len(services_latest) > 0
               THEN merge_on_key(df1, gold_keys(services_latest))
               ELSE [i \in 1..Len(df1) |-> df1[i] @@ [services_month |-> NA, services_count |-> NA]]
    IN  IF Len(ces_unified_latest) > 0
        THEN merge_ces(df2, [i \in 1..Len(ces_unified_latest) |->
                                [ces_unified_latest[i] EXCEPT !.client_id = Strip(@)]])
        ELSE [i \in 1..Len(df2) |-> df2[i] @@ [survey_name |-> NA, assessment_date |-> NA,
                                               assessment_score |-> NA, ces_source |-> NA]]

\* --------------------------------------------------- gold: text helpers
\* str.lower() on the ASCII and Latin-1 letters
Lower(s) ==
    [i \in 1..Len(s) |->
        IF (s[i] >= 65 /\ s[i] <= 90) \/ (s[i] >= 192 /\ s[i] <= 222 /\ s[i] # 215)
        THEN s[i] + 32 ELSE s[i]]

StartsWith(s, prefix) ==
    Len(s) >= Len(prefix) /\ SubSeq(s, 1, Len(prefix)) = prefix

\* the starts of the occurrences str.replace takes: the first one at or after
\* from, then the first one after its end, and so on
RECURSIVE Occurrences(_, _, _)
Occurrences(starts, k, from) ==
    LET rest == {i \in starts : i >= from}
    IN  IF rest = {} THEN {}
        ELSE LET m == CHOOSE i \in rest : \A j \in rest : i <= j
             IN  {m} \cup Occurrences(starts, k, m + k)

\* str.replace(old, new): the occurrences of old, left to right, not overlapping
Replace(t, old, new) ==
    LET k == Len(old)
        starts == {i \in 1..(Len(t) - k + 1) : SubSeq(t, i, i + k - 1) = old}
        taken == Occurrences(starts, k, 1)
    IN  Concat([i \in 1..Len(t) |->
            IF i \in taken THEN new
            ELSE IF \E j \in taken : j < i /\ i < j + k THEN <<>>
            ELSE <<t[i]>>])

\* ", ".join(labels)
RECURSIVE Join(_)
Join(labels) ==
    IF Len(labels) = 0 THEN <<>>
    ELSE IF Len(labels) = 1 THEN labels[1]
    ELSE labels[1] \o <<44, 32>> \o Join(Tail(labels))

\* the curly apostrophe, its UTF-8 bytes read as Windows-1252, and the plain one
CURLY_APOSTROPHE == <<8217>>
MISENCODED_APOSTROPHE == <<226, 8364, 8482>>
APOSTROPHE == <<39>>

\* gold._s: the null-safe string of an optional text cell
_s(x) == IF IsNA(x) THEN <<>> ELSE Val(x)

\* gold._norm_text
_norm_text(x) ==
    RemoveBOM(Replace(Replace(Strip(_s(x)), CURLY_APOSTROPHE, APOSTROPHE),
                      MISENCODED_APOSTROPHE, APOSTROPHE))

\* needle in haystack
Occurs(n, h) ==
    \E i \in 1..(Len(h) - Len(n) + 1) : \A j \in 1..Len(n) : h[i + j - 1] = n[j]

\* the test without the case folding: needle in haystack
_contains_case_sensitive(haystack, needle) == Occurs(needle, haystack)

\* gold._contains: needle.lower() in haystack.lower()
_contains(haystack, needle) == Occurs(Lower(needle), Lower(haystack))

\* ------------------------------------------------ gold: business rules

\* "CES"
CES ==
    <<67, 69, 83>>

\* "Los Angeles Housing Assessment Tool (LA HAT)"
LA_HAT ==
    <<76, 111, 115, 32, 65, 110, 103, 101, 108, 101, 115, 32, 72, 111, 117, 115, 105, 110,
    103, 32, 65, 115, 115, 101, 115, 115, 109, 101, 110, 116, 32, 84, 111, 111, 108, 32,
    40, 76, 65, 32, 72, 65, 84, 41>>

\* gold.housing_threshold
housing_threshold(survey_name) ==
    LET t == _norm_text(survey_name)
    IN  IF t = <<>> THEN NA
        ELSE IF Occurs(CES, Upper(t)) THEN Some(8)
        ELSE IF t = LA_HAT THEN Some(17)
        ELSE NA

\* the status with an assessment of exactly 730 days counted as over two years
ces_status_inclusive(assessment_date, pull_date_str) ==
    IF IsNA(assessment_date) THEN "Assessment Not Done"
    ELSE IF _pull_date(pull_date_str) - Val(assessment_date) >= 730
         THEN "Over 2 Years, Review for life change"
         ELSE "Current"

\* gold.ces_status
ces_status(assessment_date, pull_date_str) ==
    IF IsNA(assessment_date) THEN "Assessment Not Done"
    ELSE IF _pull_date(pull_date_str) - Val(assessment_date) > 730
         THEN "Over 2 Years, Review for life change"
         ELSE "Current"

\* ------------------------------------------------- gold: document flags

\* "Social Security Card"
SSN_PATTERN ==
    <<83, 111, 99, 105, 97, 108, 32, 83, 101, 99, 117, 114, 105, 116, 121, 32, 67, 97, 114,
    100>>

\* "Driver's License/State ID Card/Photo ID/ School Identification Card"
id_pattern ==
    <<68, 114, 105, 118, 101, 114, 39, 115, 32, 76, 105, 99, 101, 110, 115, 101, 47, 83,
    116, 97, 116, 101, 32, 73, 68, 32, 67, 97, 114, 100, 47, 80, 104, 111, 116, 111, 32,
    73, 68, 47, 32, 83, 99, 104, 111, 111, 108, 32, 73, 100, 101, 110, 116, 105, 102, 105,
    99, 97, 116, 105, 111, 110, 32, 67, 97, 114, 100>>

\* "Form 6053 - Los Angeles CoC Homelessness Verification"
HOMELESS_PATTERN ==
    <<70, 111, 114, 109, 32, 54, 48, 53, 51, 32, 45, 32, 76, 111, 115, 32, 65, 110, 103,
    101, 108, 101, 115, 32, 67, 111, 67, 32, 72, 111, 109, 101, 108, 101, 115, 115, 110,
    101, 115, 115, 32, 86, 101, 114, 105, 102, 105, 99, 97, 116, 105, 111, 110>>

\* "Disability Verification"
DISABILITY_PATTERN ==
    <<68, 105, 115, 97, 98, 105, 108, 105, 116, 121, 32, 86, 101, 114, 105, 102, 105, 99,
    97, 116, 105, 111, 110>>

\* the (pattern, label) rules of the health insurance flag, in source order
HEALTH_RULES ==
    \* "Medicaid or Medicare Card" -> "Medicare/Medicaid"
    <<<<<<77, 101, 100, 105, 99, 97, 105, 100, 32, 111, 114, 32, 77, 101, 100, 105, 99, 97,
      114, 101, 32, 67, 97, 114, 100>>,
      <<77, 101, 100, 105, 99, 97, 114, 101, 47, 77, 101, 100, 105, 99, 97, 105, 100>>>>,
    \* "Health Insurance Documentation" -> "Other Health Insurance"
      <<<<72, 101, 97, 108, 116, 104, 32, 73, 110, 115, 117, 114, 97, 110, 99, 101, 32, 68,
      111, 99, 117, 109, 101, 110, 116, 97, 116, 105, 111, 110>>,
      <<79, 116, 104, 101, 114, 32, 72, 101, 97, 108, 116, 104, 32, 73, 110, 115, 117, 114,
      97, 110, 99, 101>>>>>>

\* the add_if(needle, label) rules of the proof of income, in source order
INCOME_RULES ==
    \* "Pay Stub" -> "Pay Stub"
    <<<<<<80, 97, 121, 32, 83, 116, 117, 98>>,
      <<80, 97, 121, 32, 83, 116, 117, 98>>>>,
    \* "Supplemental Security Disability Income (SSDI) Forms" -> "SSDI"
      <<<<83, 117, 112, 112, 108, 101, 109, 101, 110, 116, 97, 108, 32, 83, 101, 99, 117,
      114, 105, 116, 121, 32, 68, 105, 115, 97, 98, 105, 108, 105, 116, 121, 32, 73, 110,
      99, 111, 109, 101, 32, 40, 83, 83, 68, 73, 41, 32, 70, 111, 114, 109, 115>>,
      <<83, 83, 68, 73>>>>,
    \* "Supplemental Security Income (SSI) Forms" -> "SSI"
      <<<<83, 117, 112, 112, 108, 101, 109, 101, 110, 116, 97, 108, 32, 83, 101, 99, 117,
      114, 105, 116, 121, 32, 73, 110, 99, 111, 109, 101, 32, 40, 83, 83, 73, 41, 32, 70,
      111, 114, 109, 115>>,
      <<83, 83, 73>>>>,
    \* "General Relief (GR) Form" -> "GR"
      <<<<71, 101, 110, 101, 114, 97, 108, 32, 82, 101, 108, 105, 101, 102, 32, 40, 71, 82,
      41, 32, 70, 111, 114, 109>>,
      <<71, 82>>>>,
    \* "Food Stamp Card or Award Letter" -> "Food Stamp"
      <<<<70, 111, 111, 100, 32, 83, 116, 97, 109, 112, 32, 67, 97, 114, 100, 32, 111, 114,
      32, 65, 119, 97, 114, 100, 32, 76, 101, 116, 116, 101, 114>>,
      <<70, 111, 111, 100, 32, 83, 116, 97, 109, 112>>>>,
    \* "CalWORKS Forms" -> "CalWORKS"
      <<<<67, 97, 108, 87, 79, 82, 75, 83, 32, 70, 111, 114, 109, 115>>,
      <<67, 97, 108, 87, 79, 82, 75, 83>>>>,
    \* "Form 1087 - Self Declaration of Income/No Income Form" -> "Form 1087"
      <<<<70, 111, 114, 109, 32, 49, 48, 56, 55, 32, 45, 32, 83, 101, 108, 102, 32, 68, 101,
      99, 108, 97, 114, 97, 116, 105, 111, 110, 32, 111, 102, 32, 73, 110, 99, 111, 109,
      101, 47, 78, 111, 32, 73, 110, 99, 111, 109, 101, 32, 70, 111, 114, 109>>,
      <<70, 111, 114, 109, 32, 49, 48, 56, 55>>>>,
    \* "Form 1084 - 3rd Party Income Verification" -> "Form 1084"
      <<<<70, 111, 114, 109, 32, 49, 48, 56, 52, 32, 45, 32, 51, 114, 100, 32, 80, 97, 114,
      116, 121, 32, 73, 110, 99, 111, 109, 101, 32, 86, 101, 114, 105, 102, 105, 99, 97,
      116, 105, 111, 110>>,
      <<70, 111, 114, 109, 32, 49, 48, 56, 52>>>>,
    \* "Alimony Agreement" -> "Alimony Agreement"
      <<<<65, 108, 105, 109, 111, 110, 121, 32, 65, 103, 114, 101, 101, 109, 101, 110, 116>>,
      <<65, 108, 105, 109, 111, 110, 121, 32, 65, 103, 114, 101, 101, 109, 101, 110, 116>>>>,
    \* "Social Security (NUMI) Printout" -> "Social Security (NUMI) Printout"
      <<<<83, 111, 99, 105, 97, 108, 32, 83, 101, 99, 117, 114, 105, 116, 121, 32, 40, 78,
      85, 77, 73, 41, 32, 80, 114, 105, 110, 116, 111, 117, 116>>,
      <<83, 111, 99, 105, 97, 108, 32, 83, 101, 99, 117, 114, 105, 116, 121, 32, 40, 78,
      85, 77, 73, 41, 32, 80, 114, 105, 110, 116, 111, 117, 116>>>>,
    \* "Tax Return" -> "Tax Return"
      <<<<84, 97, 120, 32, 82, 101, 116, 117, 114, 110>>,
      <<84, 97, 120, 32, 82, 101, 116, 117, 114, 110>>>>,
    \* "Veterans Affairs (VA) Benefits Award Letter" -> "Veterans Affairs (VA) Benefits Award Letter"
      <<<<86, 101, 116, 101, 114, 97, 110, 115, 32, 65, 102, 102, 97, 105, 114, 115, 32, 40,
      86, 65, 41, 32, 66, 101, 110, 101, 102, 105, 116, 115, 32, 65, 119, 97, 114, 100, 32,
      76, 101, 116, 116, 101, 114>>,
      <<86, 101, 116, 101, 114, 97, 110, 115, 32, 65, 102, 102, 97, 105, 114, 115, 32, 40,
      86, 65, 41, 32, 66, 101, 110, 101, 102, 105, 116, 115, 32, 65, 119, 97, 114, 100, 32,
      76, 101, 116, 116, 101, 114>>>>,
    \* "Self Employment Document" -> "Self Employment Document"
      <<<<83, 101, 108, 102, 32, 69, 109, 112, 108, 111, 121, 109, 101, 110, 116, 32, 68,
      111, 99, 117, 109, 101, 110, 116>>,
      <<83, 101, 108, 102, 32, 69, 109, 112, 108, 111, 121, 109, 101, 110, 116, 32, 68,
      111, 99, 117, 109, 101, 110, 116>>>>,
    \* "Other Financial Document" -> "Other Financial Document"
      <<<<79, 116, 104, 101, 114, 32, 70, 105, 110, 97, 110, 99, 105, 97, 108, 32, 68, 111,
      99, 117, 109, 101, 110, 116>>,
      <<79, 116, 104, 101, 114, 32, 70, 105, 110, 97, 110, 99, 105, 97, 108, 32, 68, 111,
      99, 117, 109, 101, 110, 116>>>>>>

\* "1 - "
FLAG_PREFIX ==
    <<49, 32, 45, 32>>

\* "0"
FLAG_NONE ==
    <<48>>

\* "Document Ready"
DOCUMENT_READY ==
    <<68, 111, 99, 117, 109, 101, 110, 116, 32, 82, 101, 97, 100, 121>>

\* "Not Document Ready"
NOT_DOCUMENT_READY ==
    <<78, 111, 116, 32, 68, 111, 99, 117, 109, 101, 110, 116, 32, 82, 101, 97, 100, 121>>

\* "All documents present"
ALL_DOCUMENTS_PRESENT ==
    <<65, 108, 108, 32, 100, 111, 99, 117, 109, 101, 110, 116, 115, 32, 112, 114, 101, 115,
    101, 110, 116>>

\* the labels of the missing-documents list, in the order they are appended
MISSING_LABELS ==
    \* "SSN Card"
    <<<<83, 83, 78, 32, 67, 97, 114, 100>>,
    \* "CDL or State ID"
      <<67, 68, 76, 32, 111, 114, 32, 83, 116, 97, 116, 101, 32, 73, 68>>,
    \* "Disability Verification (If Applicable)"
      <<68, 105, 115, 97, 98, 105, 108, 105, 116, 121, 32, 86, 101, 114, 105, 102, 105, 99,
      97, 116, 105, 111, 110, 32, 40, 73, 102, 32, 65, 112, 112, 108, 105, 99, 97, 98, 108,
      101, 41>>,
    \* "Health Insurance"
      <<72, 101, 97, 108, 116, 104, 32, 73, 110, 115, 117, 114, 97, 110, 99, 101>>,
    \* "Proof of Income"
      <<80, 114, 111, 111, 102, 32, 111, 102, 32, 73, 110, 99, 111, 109, 101>>>>

\* the labels of the matching rules in the reverse of the rule order
matches_reversed(txt, rules) ==
    LET hit == SelectSeq(rules, LAMBDA rule : _contains(txt, rule[1]))
    IN  [k \in 1..Len(hit) |-> hit[Len(hit) + 1 - k][2]]

\* the labels of the rules whose pattern occurs in txt, in rule order
matches(txt, rules) ==
    LET hit == SelectSeq(rules, LAMBDA rule : _contains(txt, rule[1]))
    IN  [k \in 1..Len(hit) |-> hit[k][2]]

\* f"1 - {', '.join(matches)}" if matches else "0"
flag_of(found) == IF Len(found) > 0 THEN FLAG_PREFIX \o Join(found) ELSE FLAG_NONE

\* the missing list of _doc_flags_from_file_list
missing_of(ssn, cdl_id, disability, health_flag, income_flag) ==
    (IF ssn = 0 THEN <<MISSING_LABELS[1]>> ELSE <<>>)
    \o (IF cdl_id = 0 THEN <<MISSING_LABELS[2]>> ELSE <<>>)
    \o (IF disability = 0 THEN <<MISSING_LABELS[3]>> ELSE <<>>)
    \o (IF health_flag = FLAG_NONE THEN <<MISSING_LABELS[4]>> ELSE <<>>)
    \o (IF income_flag = FLAG_NONE THEN <<MISSING_LABELS[5]>> ELSE <<>>)

\* a documents-ready rule that does not look at the proof of income
doc_ready_without_income(ssn, cdl_id, income_flag) ==
    IF cdl_id = 1 /\ ssn = 1 THEN DOCUMENT_READY ELSE NOT_DOCUMENT_READY

\* doc_ready of _doc_flags_from_file_list
doc_ready_of(ssn, cdl_id, income_flag) ==
    IF cdl_id = 1 /\ ssn = 1 /\ StartsWith(income_flag, <<49>>)
    THEN DOCUMENT_READY ELSE NOT_DOCUMENT_READY

\* gold._doc_flags_from_file_list
_doc_flags_from_file_list(file_list_value) ==
    LET txt == _norm_text(file_list_value)
        ssn == IF _contains(txt, SSN_PATTERN) THEN 1 ELSE 0
        cdl_id == IF _contains(txt, id_pattern) THEN 1 ELSE 0
        homeless_ver == IF _contains(txt, HOMELESS_PATTERN) THEN 1 ELSE 0
        disability == IF _contains(txt, DISABILITY_PATTERN) THEN 1 ELSE 0
        health_flag == flag_of(matches(txt, HEALTH_RULES))
        income_flag == flag_of(matches(txt, INCOME_RULES))
        missing == missing_of(ssn, cdl_id, disability, health_flag, income_flag)
    IN  [SSN_Card |-> ssn,
         CDL_or_State_ID |-> cdl_id,
         Homelessness_Verification |-> homeless_ver,
         Disability_Verification |-> disability,
         Health_Insurance_Column_Flag |-> health_flag,
         Proof_of_Income |-> income_flag,
         Document_Ready |-> doc_ready_of(ssn, cdl_id, income_flag),
         Missing_Documents |-> IF Len(missing) = 0 THEN ALL_DOCUMENTS_PRESENT ELSE Join(missing)]

\* docs_ready of the housing rule, read off the flag columns
docs_ready(flags) ==
    /\ flags.CDL_or_State_ID = 1
    /\ flags.SSN_Card = 1
    /\ StartsWith(flags.Proof_of_Income, <<49>>)

\* the housing rule with a strict comparison: score > threshold
housing_matching_ready_strict(flags, thr, score) ==
    IF docs_ready(flags) /\ ~IsNA(thr) /\ ~IsNA(score) /\ Val(score) > Val(thr)
    THEN "Housing Matching Ready" ELSE "Not Housing Matching Ready"

\* matching_ready = docs_ready & threshold.notna() & score.notna() & (score >= threshold)
housing_matching_ready(flags, thr, score) ==
    IF docs_ready(flags) /\ ~IsNA(thr) /\ ~IsNA(score) /\ Val(score) >= Val(thr)
    THEN "Housing Matching Ready" ELSE "Not Housing Matching Ready"

\* _intervention of build_gold_client_program_readiness. float(d) raises on a
\* text (d = None) and is nan on NaN, and no comparison with nan holds. The
\* labels are written in ASCII: ">=" for U+2265, "-" for U+2013 and U+2014.
_intervention(days_cell, document_ready, status, thr, sc) ==
    LET known == IsNumber(days_cell)
        d == IF known THEN Val(days_cell) ELSE 0
        docs_ok == document_ready = DOCUMENT_READY
        expired == status \in {"Over 2 Years, Review for life change", "Assessment Not Done"}
        low == ~IsNA(thr) /\ (IsNA(sc) \/ Val(sc) < Val(thr))
    IN  IF known /\ d >= 120 /\ ~docs_ok THEN ">=120 days & missing docs - ESCALATE"
        ELSE IF known /\ d >= 120 /\ expired
             THEN ">=120 days in interim housing & CES assessment >2 years old - ESCALATE for review"
        ELSE IF known /\ d >= 120 /\ low THEN ">=120 days & score below threshold - ESCALATE"
        ELSE IF known /\ d >= 120 THEN ">=120 days & docs/assessment OK - monitor"
        ELSE IF known /\ 75 <= d /\ d < 120 /\ ~docs_ok THEN "75-119 days & missing docs - ACTION"
        ELSE IF known /\ 75 <= d /\ d < 120 /\ (expired \/ low)
             THEN "75-119 days & assessment risk - ACTION"
        ELSE "No Action Needed"

\* _tier of build_gold_client_program_readiness: float(v) raises on a text
\* (None) and is nan on NaN, for which every comparison is false
_tier(v) ==
    IF Len(v) >= 2 THEN NA
    ELSE IF Len(v) = 0 THEN Some("Tier 4 - >365 Days")
    ELSE IF Val(v) < 60 THEN Some("Tier 1 - <60 Days")
    ELSE IF Val(v) <= 120 THEN Some("Tier 2 - 60-120 Days")
    ELSE IF Val(v) <= 365 THEN Some("Tier 3 - 120-365 Days")
    ELSE Some("Tier 4 - >365 Days")

\* one row of the gold schema (df.reindex(columns=gold_cols))
gold_row(r, pull_date) ==
    LET date == _to_date(r.assessment_date)
        status == ces_status(date, pull_date)
        flags == _doc_flags_from_file_list(r.List_of_Client_File_Name)
        thr == housing_threshold(r.survey_name)
        score == to_numeric(r.assessment_score)
    IN
    [List_of_Client_File_Name |-> r.List_of_Client_File_Name,
     CES_Status |-> status,
     Assessment_Status |-> status,
     SSN_Card |-> flags.SSN_Card,
     CDL_or_State_ID |-> flags.CDL_or_State_ID,
     Homelessness_Verification |-> flags.Homelessness_Verification,
     Disability_Verification |-> flags.Disability_Verification,
     Health_Insurance_Column_Flag |-> flags.Health_Insurance_Column_Flag,
     Proof_of_Income |-> flags.Proof_of_Income,
     Document_Ready |-> flags.Document_Ready,
     Housing_Matching_Ready |-> housing_matching_ready(flags, thr, score),
     Intervention_Alert |-> _intervention(r.Enrollments_Days_in_Project, flags.Document_Ready,
                                          status, thr, r.assessment_score),
     Enrollment_Days_Tier |-> _tier(r.Enrollments_Days_in_Project),
     Missing_Documents |-> flags.Missing_Documents,
     client_id |-> r.client_id,
     program_name |-> r.program_name,
     Enrollments_Active_in_Project |-> r.Enrollments_Active_in_Project,
     Enrollments_Days_in_Project |-> r.Enrollments_Days_in_Project,
     Enrollments_Project_Start_Date |-> r.Enrollments_Project_Start_Date,
     Enrollments_Deleted |-> r.Enrollments_Deleted,
     case_notes_month |-> r.case_notes_month,
     case_notes_count |-> r.case_notes_count,
     services_month |-> r.services_month,
     services_count |-> r.services_count,
     Survey_Name |-> r.survey_name,
     Latest_CES_Assessment_Date |-> date,
     Assessment_Score |-> r.assessment_score,
     CES_Source |-> r.ces_source]

\* gold.build_gold_client_program_readiness
build_gold_client_program_readiness(pull_date, spine_client_program, case_notes_latest, services_latest, ces_unified_latest) ==
    LET df == gold_joined(spine_client_program, case_notes_latest, services_latest,
                          ces_unified_latest)
    IN  [i \in 1..Len(df) |-> gold_row(df[i], pull_date)]

\* ---------------------------------------------------------- gold: client
\* the rank columns of build_gold_client_readiness_current
r_active(r) == IF Upper(r.Enrollments_Active_in_Project) = YES THEN 1 ELSE 0
r_not_deleted(r) == IF Upper(r.Enrollments_Deleted) = YES THEN 0 ELSE 1
r_days(r) == IF IsNA(to_numeric(r.Enrollments_Days_in_Project)) THEN -1
             ELSE Val(to_numeric(r.Enrollments_Days_in_Project))
r_start(r) == r.Enrollments_Project_Start_Date

\* the sort with the start date before the tenure
CollapseBeforeStartFirst(a, b) ==
    FirstNonZero(<<CmpStrAsc(a.client_id, b.client_id),
                   CmpIntDesc(r_active(a), r_active(b)),
                   CmpIntDesc(r_not_deleted(a), r_not_deleted(b)),
                   CmpOptDesc(r_start(a), r_start(b)),
                   CmpIntDesc(r_days(a), r_days(b))>>) < 0

\* sort_values(["client_id", "_r_active", "_r_not_deleted", "_r_days", "_r_start"],
\*             ascending=[True, False, False, False, False])
CollapseBefore(a, b) ==
    FirstNonZero(<<CmpStrAsc(a.client_id, b.client_id),
                   CmpIntDesc(r_active(a), r_active(b)),
                   CmpIntDesc(r_not_deleted(a), r_not_deleted(b)),
                   CmpIntDesc(r_days(a), r_days(b)),
                   CmpOptDesc(r_start(a), r_start(b))>>) < 0

collapse_sorted(df) == StableSort(df, CollapseBefore)

\* gold.build_gold_client_readiness_current
build_gold_client_readiness_current(gold_client_program) ==
    DropDuplicatesByClient(collapse_sorted(gold_client_program))

\* ---------------------------------------------------------- silver: run
\* silver.build_silver, the SilverOutputs it returns when no builder raises
build_silver(pull_date, pcd_raw, case_notes_raw, services_raw, ces_hmis_raw, ces_external_raw) ==
    LET pcd_clean == pcd_clean_of(pcd_raw)
        dupe_summary == dupe_summary_of(pcd_clean)
        cn_monthly == build_case_notes_monthly(case_notes_raw)
        svc_monthly == build_services_monthly(services_raw)
        hmis_latest == build_ces_hmis_latest(ces_hmis_raw, pull_date)
        external_latest == IF Len(ces_external_raw) > 0
                           THEN build_ces_external_latest(ces_external_raw, pull_date)
                           ELSE <<>>
    IN  [pcd_clean |-> pcd_clean,
         pcd_current_client_program |-> choose_current_client_program(pcd_clean),
         qa_enrollment_duplicates_summary |-> dupe_summary,
         qa_enrollment_duplicates_detail |-> _pcd_dupe_detail_standard(pcd_clean, dupe_summary),
         case_notes_monthly |-> cn_monthly,
         qa_case_notes_duplicates |-> case_notes_qa_dupes(case_notes_raw),
         case_notes_latest |-> latest_month_asof_pull(cn_monthly, pull_date, "case_note_count", "case_notes"),
         services_monthly |-> svc_monthly,
         services_latest |-> latest_month_asof_pull(svc_monthly, pull_date, "services_count", "services"),
         ces_hmis_latest |-> hmis_latest,
         ces_external_latest |-> external_latest,
         ces_unified_latest |-> unify_ces_external_over_hmis(external_latest, hmis_latest)]

\* the SilverOutputs of a run that has not built silver yet
NoSilver ==
    [pcd_clean |-> <<>>, pcd_current_client_program |-> <<>>,
     qa_enrollment_duplicates_summary |-> <<>>, qa_enrollment_duplicates_detail |-> <<>>,
     case_notes_monthly |-> <<>>, qa_case_notes_duplicates |-> <<>>, case_notes_latest |-> <<>>,
     services_monthly |-> <<>>, services_latest |-> <<>>,
     ces_hmis_latest |-> <<>>, ces_external_latest |-> <<>>, ces_unified_latest |-> <<>>]

\* ------------------------------------------------------- input domains
Digits2(n) == <<48 + (n \div 10), 48 + (n % 10)>>
Digits4(n) == Digits2(n \div 100) \o Digits2(n % 100)
MonthToken(y, m) == Digits4(y) \o <<45>> \o Digits2(m)
DateToken(y, m, d) == MonthToken(y, m) \o <<45>> \o Digits2(d)

Client7 == <<55>>
Client8 == <<56>>
ProgramA == <<65>>
ProgramB == <<66>>
ProgramWD == <<87, 68>>
Yes == <<89, 101, 115>>
No == <<78, 111>>
SurveyCES == <<67, 69, 83>>
SurveyLAHAT == <<76, 65, 32, 72, 65, 84>>

PcdRow(cid, prog, act, del, days, start) ==
    [Clients_Unique_Identifier |-> cid, Programs_Full_Name |-> prog,
     Enrollments_Active_in_Project |-> act, Enrollments_Deleted |-> del,
     Enrollments_Days_in_Project |-> days, Enrollments_Project_Start_Date |-> start,
     List_of_Client_File_Name |-> NA]

StartDay1 == Some(Ordinal(2024, 1, 10))
StartDay2 == Some(Ordinal(2024, 6, 20))

\* enrollment rows over several clients and programmes (one of them excluded,
\* also spelled with a byte-order mark), in two rank profiles
PcdRows ==
    {PcdRow(c, p, Yes, No, pr[1], pr[2]) :
        c \in {Client7, Client8}, p \in {ProgramA, ProgramB},
        pr \in {<<Some(10), StartDay1>>, <<Some(5), StartDay2>>}}
    \cup {PcdRow(Client7, ProgramWD, Yes, No, Some(10), StartDay1),
          PcdRow(Client7, <<BOM>> \o ProgramWD, Yes, No, Some(10), StartDay1)}

\* enrollment rows of one key over every combination of the four rank
\* columns, and one row of another client
RankRows ==
    {PcdRow(Client7, ProgramA, a, d, n, t) :
        a \in {Yes, No}, d \in {Yes, No}, n \in {NA, Some(5), Some(10)},
        t \in {NA, StartDay1, StartDay2}}
    \cup {PcdRow(Client8, ProgramA, Yes, No, Some(5), StartDay1)}

EventRow(cid, prog, month, count) ==
    [Clients_Unique_Identifier |-> cid, Programs_Full_Name |-> prog,
     Month |-> month, Count |-> count]

BadMonth == <<50, 48, 50, 52, 45, 50>>

\* event rows of two clients over three months, one row with a malformed
\* month and one with an absent count
EventRows ==
    {EventRow(Client7, ProgramA, MonthToken(2023, 12), Some(1)),
     EventRow(Client7, ProgramA, MonthToken(2024, 2), Some(2)),
     EventRow(Client7, ProgramA, MonthToken(2024, 10), Some(1)),
     EventRow(Client8, ProgramA, MonthToken(2023, 12), Some(2)),
     EventRow(Client8, ProgramA, MonthToken(2024, 2), Some(1)),
     EventRow(Client8, ProgramA, MonthToken(2024, 10), Some(2)),
     EventRow(Client7, ProgramA, BadMonth, Some(1)),
     EventRow(Client7, ProgramA, MonthToken(2024, 2), NA)}

PullDates == {DateToken(2023, 11, 30), DateToken(2024, 9, 30), DateToken(2024, 10, 1)}

HmisRow(cid, date, score) ==
    [Clients_Unique_Identifier |-> cid, Assessment_Name |-> SurveyCES,
     Assessment_Date |-> date, Assessment_Score |-> score, Assessment_ID |-> NA,
     Is_Coordinated_Entry |-> Some(Yes), Assessing_Agency_Name |-> Some(<<72>>)]

ExternalRow(cid, date, score) ==
    [Clients_Unique_Identifier |-> cid, Survey_Name |-> SurveyLAHAT,
     Latest_CES_Assessment_Date |-> date, Assessment_Score |-> score, Last_Updated |-> NA]

AssessDay1 == Some(Ordinal(2023, 5, 1))
AssessDay2 == Some(Ordinal(2024, 3, 1))

HmisRows ==
    {HmisRow(Client7, AssessDay1, Some(99)), HmisRow(Client7, AssessDay2, Some(5)),
     HmisRow(Client8, AssessDay1, Some(99)), HmisRow(Client8, NA, Some(5))}

ExternalRows ==
    {ExternalRow(Client7, AssessDay1, Some(10)), ExternalRow(Client7, AssessDay2, Some(20)),
     ExternalRow(Client8, AssessDay2, Some(10))}

\* the tables of a run whose other inputs vary
FixedPcd ==
    <<PcdRow(Client7, ProgramA, Yes, No, Some(10), StartDay1) @@ [idx |-> 0],
      PcdRow(Client7, ProgramB, No, No, Some(5), StartDay2) @@ [idx |-> 1],
      PcdRow(Client8, ProgramA, Yes, No, Some(5), StartDay1) @@ [idx |-> 2]>>
FixedCaseNotes ==
    <<EventRow(Client7, ProgramA, MonthToken(2024, 2), Some(2)),
      EventRow(Client7, ProgramA, MonthToken(2024, 10), Some(3)),
      EventRow(Client7, ProgramA, MonthToken(2024, 2), Some(1)),
      EventRow(Client7, ProgramB, MonthToken(2023, 12), Some(1))>>
FixedServices ==
    <<EventRow(Client7, ProgramA, MonthToken(2023, 12), Some(1)),
      EventRow(Client8, ProgramA, MonthToken(2024, 10), Some(4)),
      EventRow(Client8, ProgramA, MonthToken(2024, 2), Some(2))>>
FixedHmis ==
    <<HmisRow(Client7, AssessDay1, Some(99)), HmisRow(Client8, AssessDay2, Some(5)),
      HmisRow(Client8, AssessDay1, Some(99))>>
FixedExternal ==
    <<ExternalRow(Client7, AssessDay1, Some(10)), ExternalRow(Client7, AssessDay2, Some(20))>>

\* a cell of a numeric column that holds a text: "n/a"
NotANumber == <<110, 47, 97>>

\* a file list that names the three documents of the documents-ready rule
ReadyFileList == Join(<<SSN_PATTERN, id_pattern, INCOME_RULES[1][1]>>)

\* one enrollment row over tenures around the limits 60, 75, 120 and 365,
\* absent and not a number, with and without the documents
AlertPcdRows ==
    {[PcdRow(Client7, ProgramA, Yes, No, n, StartDay1) EXCEPT !.List_of_Client_File_Name = f] :
        n \in {NA, NotANumber, Some(59), Some(60), Some(74), Some(75), Some(119), Some(120),
               Some(121), Some(365), Some(366)},
        f \in {NA, Some(ReadyFileList)}}

\* enrollment rows of one client in two programmes over the rank columns, and
\* one row of another client
CollapseRows ==
    {PcdRow(Client7, p, ad[1], ad[2], nt[1], nt[2]) :
        p \in {ProgramA, ProgramB},
        ad \in {<<Yes, No>>, <<No, No>>, <<Yes, Yes>>},
        nt \in {<<Some(10), StartDay1>>, <<Some(5), StartDay2>>, <<Some(5), StartDay1>>,
                <<NotANumber, StartDay2>>, <<Some(5), NA>>}}
    \cup {PcdRow(Client8, ProgramA, Yes, No, Some(5), StartDay1)}

\* event rows of two triples: a repeated triple, the same month spelled with
\* surrounding whitespace, malformed and absent months, and counts that are
\* negative, absent or not a number
MonthRows ==
    {EventRow(Client7, ProgramA, MonthToken(2024, 2), Some(1)),
     EventRow(Client7, ProgramA, MonthToken(2024, 2), Some(2)),
     EventRow(Client7, ProgramA, <<32>> \o MonthToken(2024, 2) \o <<32>>, Some(1)),
     EventRow(Client7, ProgramA, MonthToken(2024, 2), NotANumber),
     EventRow(Client8, ProgramA, MonthToken(2023, 12), NA),
     EventRow(Client8, ProgramA, MonthToken(2023, 12), Some(-1)),
     EventRow(Client7, ProgramA, BadMonth, Some(1)),
     EventRow(Client7, ProgramA, NA, Some(1))}

ZERO_WIDTH_SPACE == <<8203>>
NO_BREAK_SPACE == <<160>>
SPACE == <<32>>
ProgramAB == ProgramA \o SPACE \o ProgramB

\* enrollment rows over spellings of one client id and of one programme name
\* that differ by a byte-order mark, a zero-width space, a non-breaking
\* space, a run of whitespace or leading/trailing whitespace, and over a
\* different programme
CanonRows ==
    LET ids == {Client7, Client7 \o SPACE, <<BOM>> \o Client7, Client7 \o ZERO_WIDTH_SPACE}
        names == {ProgramAB, SPACE \o ProgramAB, <<BOM>> \o ProgramAB,
                  ProgramA \o SPACE \o SPACE \o ProgramB,
                  ProgramA \o ZERO_WIDTH_SPACE \o SPACE \o ProgramB,
                  ProgramA \o NO_BREAK_SPACE \o SPACE \o ProgramB,
                  ProgramB}
    IN  {PcdRow(c, p, Yes, No, Some(10), StartDay1) : c \in ids, p \in names}

\* the document names a file list is made of: the four single-valued
\* patterns, both health patterns, and two income patterns listed against the
\* rule order (Tax Return is rule 11, Pay Stub is rule 1)
DOC_NAMES ==
    <<SSN_PATTERN, id_pattern, HOMELESS_PATTERN, DISABILITY_PATTERN,
      HEALTH_RULES[1][1], HEALTH_RULES[2][1], INCOME_RULES[11][1], INCOME_RULES[1][1]>>

\* the file list that names the documents of chosen, in the order of
\* DOC_NAMES or in the reverse order
FileListOf(chosen, reversed) ==
    LET idx == SelectSeq([i \in 1..Len(DOC_NAMES) |-> i], LAMBDA i : i \in chosen)
    IN  Join([k \in 1..Len(idx) |->
                 DOC_NAMES[IF reversed THEN idx[Len(idx) + 1 - k] ELSE idx[k]]])

\* one enrollment row over the file lists, and one with no file list
DocPcdRows ==
    {[PcdRow(Client7, ProgramA, Yes, No, Some(10), StartDay1)
         EXCEPT !.List_of_Client_File_Name = Some(FileListOf(chosen, reversed))] :
        chosen \in SUBSET (1..Len(DOC_NAMES)), reversed \in BOOLEAN}
    \cup {PcdRow(Client7, ProgramA, Yes, No, Some(10), StartDay1)}

\* the pull date of the runs over business rules, and assessment dates 730
\* and 731 days before it
AlertPullDate == DateToken(2024, 10, 1)
AssessDay730 == Some(Ordinal(2024, 10, 1) - 730)
AssessDay731 == Some(Ordinal(2024, 10, 1) - 731)

\* one external assessment row over survey names with and without a
\* threshold, dates on both sides of two years, scores around 8 and 17
AlertExternalRows ==
    {[ExternalRow(Client7, d, sc) EXCEPT !.Survey_Name = sv] :
        sv \in {SurveyCES, Lower(SurveyCES), LA_HAT, SurveyLAHAT},
        d \in {AssessDay2, AssessDay730, AssessDay731},
        sc \in {NA, NotANumber, Some(7), Some(8), Some(16), Some(17)}}

\* ---------------------------------------------------------------- state
\* ------------------------------------------------------ orchestrator
\* DATE_RE.search(text): the first \d{4}-\d{2}-\d{2} in the text, or NA
_parse_date(text) ==
    LET hits == {i \in 1..(Len(text) - 9) :
                    /\ \A j \in {0, 1, 2, 3, 5, 6, 8, 9} : IsDigit(text[i + j])
                    /\ text[i + 4] = 45 /\ text[i + 7] = 45}
    IN  IF hits = {} THEN NA
        ELSE LET first == CHOOSE i \in hits : \A k \in hits : i <= k
             IN  Some(SubSeq(text, first, first + 9))

\* the dates of the files of Bronze/ProgramClientData
bronze_dates(files) == {Val(_parse_date(f)) : f \in {g \in files : ~IsNA(_parse_date(g))}}

\* hmis_orchestrator.latest_pull_date_from_bronze: max(dates) in string
\* order; NA stands for the FileNotFoundError of a folder without dated files
latest_pull_date_from_bronze(files) ==
    IF bronze_dates(files) = {} THEN NA
    ELSE Some(CHOOSE d \in bronze_dates(files) : \A e \in bronze_dates(files) : StrLeq(e, d))

\* the test that re-requests the date the cursor already holds
sensor_skips_older_only(last, newest) == last # <<>> /\ StrLess(newest, last)

\* if last and newest <= last: return
sensor_skips(last, newest) == last # <<>> /\ StrLeq(newest, last)

\* file names "ProgramClientData_<date>.csv" and one without a date
PCD_FILE_PREFIX == <<80, 114, 111, 103, 114, 97, 109, 67, 108, 105, 101, 110, 116, 68, 97, 116, 97, 95>>
CSV == <<46, 99, 115, 118>>
BronzeFiles ==
    {PCD_FILE_PREFIX \o d \o CSV :
        d \in {DateToken(2023, 12, 31), DateToken(2024, 1, 5), DateToken(2024, 1, 20),
               DateToken(2024, 10, 1), <<108, 97, 116, 101, 115, 116>>}}

\* an external assessment file: unreadable, readable and empty, or readable
\* with one row
ExternalFiles ==
    {[readable |-> FALSE, rows |-> <<>>], [readable |-> TRUE, rows |-> <<>>]}
    \cup {[readable |-> TRUE, rows |-> <<r>>] :
             r \in {ExternalRow(Client7, AssessDay1, Some(10)), ExternalRow(Client8, AssessDay2, Some(20))}}

VARIABLES pc, pull_date, pcd_raw, case_notes_raw, services_raw, ces_hmis_raw,
          ces_external_raw, s, gold_client_program, gold_client,
          ces_external_files, files_read, log,
          bronze_files, cursor, run_requests

\* the tables of a run
run_vars == <<pc, pull_date, pcd_raw, case_notes_raw, services_raw, ces_hmis_raw,
              ces_external_raw, s, gold_client_program, gold_client>>

\* the external assessment files of the run, how many of them the loop of
\* run.main has handled, and what the run has logged about them
loop_vars == <<ces_external_files, files_read, log>>

\* the files of Bronze/ProgramClientData, the sensor's cursor and the run
\* requests the sensor has emitted
sensor_vars == <<bronze_files, cursor, run_requests>>

vars == <<run_vars, loop_vars, sensor_vars>>

\* run.main before any table is built
InitRun ==
    /\ pc = "read"
    /\ s = NoSilver
    /\ gold_client_program = <<>>
    /\ gold_client = <<>>
    /\ ces_external_files = <<>> /\ files_read = 0 /\ log = <<>>
    /\ bronze_files = {} /\ cursor = <<>> /\ run_requests = <<>>

\* read_table(singles["program_client_data"]) yields one more row (its index
\* label is its position)
ReadPcdRow(r, max) ==
    /\ pc = "read"
    /\ Len(pcd_raw) < max
    /\ pcd_raw' = Append(pcd_raw, r @@ [idx |-> Len(pcd_raw)])
    /\ UNCHANGED <<pc, pull_date, case_notes_raw, services_raw, ces_hmis_raw,
                   ces_external_raw, s, gold_client_program, gold_client>>
    /\ UNCHANGED <<loop_vars, sensor_vars>>

\* read_table(singles["case_notes"]) yields one more row
ReadCaseNoteRow(r) ==
    /\ pc = "read"
    /\ Len(case_notes_raw) + Len(services_raw) < MaxEventRows
    /\ case_notes_raw' = Append(case_notes_raw, r)
    /\ UNCHANGED <<pc, pull_date, pcd_raw, services_raw, ces_hmis_raw,
                   ces_external_raw, s, gold_client_program, gold_client>>
    /\ UNCHANGED <<loop_vars, sensor_vars>>

\* read_table(singles["services"]) yields one more row
ReadServiceRow(r) ==
    /\ pc = "read"
    /\ Len(case_notes_raw) + Len(services_raw) < MaxEventRows
    /\ services_raw' = Append(services_raw, r)
    /\ UNCHANGED <<pc, pull_date, pcd_raw, case_notes_raw, ces_hmis_raw,
                   ces_external_raw, s, gold_client_program, gold_client>>
    /\ UNCHANGED <<loop_vars, sensor_vars>>

\* read_table(singles["ces_hmis"]) yields one more row
ReadCesHmisRow(r) ==
    /\ pc = "read"
    /\ Len(ces_hmis_raw) + Len(ces_external_raw) < MaxCesRows
    /\ ces_hmis_raw' = Append(ces_hmis_raw, r)
    /\ UNCHANGED <<pc, pull_date, pcd_raw, case_notes_raw, services_raw,
                   ces_external_raw, s, gold_client_program, gold_client>>
    /\ UNCHANGED <<loop_vars, sensor_vars>>

\* the concatenated external assessment files yield one more row
ReadCesExternalRow(r) ==
    /\ pc = "read"
    /\ Len(ces_hmis_raw) + Len(ces_external_raw) < MaxCesRows
    /\ ces_external_raw' = Append(ces_external_raw, r)
    /\ UNCHANGED <<pc, pull_date, pcd_raw, case_notes_raw, services_raw,
                   ces_hmis_raw, s, gold_client_program, gold_client>>
    /\ UNCHANGED <<loop_vars, sensor_vars>>

\* s = silver.build_silver(...): a bad month token raises and ends the run
BuildSilver ==
    /\ pc = "read"
    /\ files_read = Len(ces_external_files)
    /\ IF \/ missing_columns(pcd_raw, PCD_REQUIRED)
          \/ missing_columns(case_notes_raw, EVENT_REQUIRED)
          \/ missing_columns(services_raw, EVENT_REQUIRED)
          \/ bad_month_any(case_notes_raw) \/ bad_month_any(services_raw)
       THEN pc' = "failed" /\ s' = s
       ELSE /\ pc' = "silver"
            /\ s' = build_silver(pull_date, pcd_raw, case_notes_raw, services_raw,
                                 ces_hmis_raw, ces_external_raw)
    /\ UNCHANGED <<pull_date, pcd_raw, case_notes_raw, services_raw, ces_hmis_raw,
                   ces_external_raw, gold_client_program, gold_client>>
    /\ UNCHANGED <<loop_vars, sensor_vars>>

\* the spine has no "Enrollments Days in Project" column: df.get(..., pd.NA)
\* is then the scalar pd.NA, and days.notna() / pd.NA.apply(_tier) raise
gold_missing_days(spine) == missing_columns(spine, {"Enrollments_Days_in_Project"})

\* gold_client_program = gold.build_gold_client_program_readiness(...); the
\* silver tables of s are on disk by then (write_csv, run.py:86-102)
BuildGoldClientProgram ==
    /\ pc = "silver"
    /\ IF gold_missing_days(s.pcd_current_client_program)
       THEN pc' = "failed" /\ gold_client_program' = gold_client_program
       ELSE /\ pc' = "gold_fact"
            /\ gold_client_program' =
                   build_gold_client_program_readiness(pull_date, s.pcd_current_client_program,
                       s.case_notes_latest, s.services_latest, s.ces_unified_latest)
    /\ UNCHANGED <<pull_date, pcd_raw, case_notes_raw, services_raw, ces_hmis_raw,
                   ces_external_raw, s, gold_client>>
    /\ UNCHANGED <<loop_vars, sensor_vars>>

\* the client table appended to the table of the previous run
BuildGoldClientAppend ==
    /\ pc = "gold_fact"
    /\ pc' = "done"
    /\ gold_client' = gold_client \o build_gold_client_readiness_current(gold_client_program)
    /\ UNCHANGED <<pull_date, pcd_raw, case_notes_raw, services_raw, ces_hmis_raw,
                   ces_external_raw, s, gold_client_program>>
    /\ UNCHANGED <<loop_vars, sensor_vars>>

\* gold_client = gold.build_gold_client_readiness_current(gold_client_program),
\* written over the file of any previous run (write_csv)
BuildGoldClient ==
    /\ pc = "gold_fact"
    /\ pc' = "done"
    /\ gold_client' = build_gold_client_readiness_current(gold_client_program)
    /\ UNCHANGED <<pull_date, pcd_raw, case_notes_raw, services_raw, ces_hmis_raw,
                   ces_external_raw, s, gold_client_program>>
    /\ UNCHANGED <<loop_vars, sensor_vars>>

Build == BuildSilver \/ BuildGoldClientProgram \/ BuildGoldClient

\* runs over varying enrollment tables; the other inputs are all empty or all fixed
Init ==
    /\ InitRun
    /\ pull_date = DateToken(2024, 10, 1)
    /\ pcd_raw = <<>>
    /\ \/ /\ case_notes_raw = FixedCaseNotes /\ services_raw = FixedServices
          /\ ces_hmis_raw = FixedHmis /\ ces_external_raw = FixedExternal
       \/ /\ case_notes_raw = <<>> /\ services_raw = <<>>
          /\ ces_hmis_raw = <<>> /\ ces_external_raw = <<>>

Next ==
    \/ \E r \in PcdRows : ReadPcdRow(r, MaxPcdRows)
    \/ Build

Spec == Init /\ [][Next]_vars

\* runs over enrollment tables that vary in the rank columns
InitRank ==
    /\ InitRun
    /\ pull_date = DateToken(2024, 10, 1)
    /\ pcd_raw = <<>>
    /\ case_notes_raw = <<>> /\ services_raw = <<>>
    /\ ces_hmis_raw = <<>> /\ ces_external_raw = <<>>

NextRank ==
    \/ \E r \in RankRows : ReadPcdRow(r, MaxRankRows)
    \/ BuildSilver

SpecRank == InitRank /\ [][NextRank]_vars

\* runs over varying case-note and service tables and pull dates
InitEvents ==
    /\ InitRun
    /\ pull_date \in PullDates
    /\ pcd_raw = FixedPcd
    /\ case_notes_raw = <<>> /\ services_raw = <<>>
    /\ ces_hmis_raw = FixedHmis /\ ces_external_raw = FixedExternal

NextEvents ==
    \/ \E r \in EventRows : ReadCaseNoteRow(r)
    \/ \E r \in EventRows : ReadServiceRow(r)
    \/ BuildSilver

SpecEvents == InitEvents /\ [][NextEvents]_vars

\* runs over varying assessment tables
InitCes ==
    /\ InitRun
    /\ pull_date \in {DateToken(2024, 2, 15), DateToken(2024, 10, 1)}
    /\ pcd_raw = FixedPcd
    /\ case_notes_raw = FixedCaseNotes /\ services_raw = FixedServices
    /\ ces_hmis_raw = <<>> /\ ces_external_raw = <<>>

NextCes ==
    \/ \E r \in HmisRows : ReadCesHmisRow(r)
    \/ \E r \in ExternalRows : ReadCesExternalRow(r)
    \/ Build

SpecCes == InitCes /\ [][NextCes]_vars

\* runs over one enrollment and its assessment, varying in the columns the
\* business rules of the fact table read
InitAlert ==
    /\ InitRun
    /\ pull_date = AlertPullDate
    /\ pcd_raw \in {<<r @@ [idx |-> 0]>> : r \in AlertPcdRows}
    /\ case_notes_raw = <<>> /\ services_raw = <<>>
    /\ ces_hmis_raw = <<>>
    /\ ces_external_raw \in {<<>>} \cup {<<r>> : r \in AlertExternalRows}

NextAlert == Build

SpecAlert == InitAlert /\ [][NextAlert]_vars

\* runs over one enrollment whose file list varies
InitDocs ==
    /\ InitRun
    /\ pull_date = AlertPullDate
    /\ pcd_raw \in {<<r @@ [idx |-> 0]>> : r \in DocPcdRows}
    /\ case_notes_raw = <<>> /\ services_raw = <<>>
    /\ ces_hmis_raw = <<>> /\ ces_external_raw = <<>>

NextDocs == Build

SpecDocs == InitDocs /\ [][NextDocs]_vars

\* runs over enrollments of one client in several programmes
NextCollapse ==
    \/ \E r \in CollapseRows : ReadPcdRow(r, MaxRankRows)
    \/ Build

SpecCollapse == InitRank /\ [][NextCollapse]_vars

\* runs over enrollment rows whose identifiers are spelled in several ways
NextCanon ==
    \/ \E r \in CanonRows : ReadPcdRow(r, MaxRankRows)
    \/ BuildSilver

SpecCanon == InitRank /\ [][NextCanon]_vars

\* runs over event tables with malformed months and unusual counts
InitMonth ==
    /\ InitRun
    /\ pull_date = AlertPullDate
    /\ pcd_raw = FixedPcd
    /\ case_notes_raw = <<>> /\ services_raw = <<>>
    /\ ces_hmis_raw = FixedHmis /\ ces_external_raw = FixedExternal

NextMonth ==
    \/ \E r \in MonthRows : ReadCaseNoteRow(r)
    \/ \E r \in MonthRows : ReadServiceRow(r)
    \/ Build

SpecMonth == InitMonth /\ [][NextMonth]_vars

\* a table read from a file that has no column c
WithoutColumn(t, c) == [i \in 1..Len(t) |-> [f \in DOMAIN t[i] \ {c} |-> t[i][f]]]

\* runs over input files that lack a column: the enrollment file without the
\* tenure column or without the client id column, an event file without its
\* month column
InitColumns ==
    LET pcd_rows == {PcdRow(Client7, ProgramA, Yes, No, Some(10), StartDay1),
                     PcdRow(Client8, ProgramA, Yes, No, Some(130), StartDay2)}
        pcd_tables == {[i \in 1..Len(t) |-> t[i] @@ [idx |-> i - 1]] :
                          t \in UNION {[1..k -> pcd_rows] : k \in 1..2}}
        event_rows == {EventRow(Client7, ProgramA, MonthToken(2024, 2), Some(1)),
                       EventRow(Client8, ProgramA, MonthToken(2023, 12), Some(2))}
        event_full == UNION {[1..k -> event_rows] : k \in 0..2}
        event_tables == event_full \cup {WithoutColumn(t, "Month") : t \in event_full}
    IN  /\ InitRun
        /\ pull_date = AlertPullDate
        /\ pcd_raw \in {<<>>} \cup pcd_tables
                       \cup {WithoutColumn(t, "Enrollments_Days_in_Project") : t \in pcd_tables}
                       \cup {WithoutColumn(t, "Clients_Unique_Identifier") : t \in pcd_tables}
        /\ case_notes_raw \in event_tables
        /\ services_raw \in event_tables
        /\ ces_hmis_raw = FixedHmis /\ ces_external_raw = FixedExternal

NextColumns == Build

SpecColumns == InitColumns /\ [][NextColumns]_vars

\* one pass of the loop over ces_external_files: read_table(f) and, for a
\* readable non-empty file, frames.append(df); an unreadable file is skipped
\* by `except Exception: continue`, which records nothing
ReadCesExternalFile ==
    /\ pc = "read"
    /\ files_read < Len(ces_external_files)
    /\ LET f == ces_external_files[files_read + 1]
       IN  ces_external_raw' = IF f.readable /\ Len(f.rows) > 0
                               THEN ces_external_raw \o f.rows
                               ELSE ces_external_raw
    /\ files_read' = files_read + 1
    /\ UNCHANGED <<pc, pull_date, pcd_raw, case_notes_raw, services_raw, ces_hmis_raw,
                   s, gold_client_program, gold_client>>
    /\ UNCHANGED <<ces_external_files, log, sensor_vars>>

\* runs over up to MaxFiles external assessment files
InitFiles ==
    /\ pc = "read" /\ s = NoSilver /\ gold_client_program = <<>> /\ gold_client = <<>>
    /\ pull_date = AlertPullDate
    /\ pcd_raw = FixedPcd
    /\ case_notes_raw = FixedCaseNotes /\ services_raw = FixedServices
    /\ ces_hmis_raw = FixedHmis /\ ces_external_raw = <<>>
    /\ ces_external_files \in UNION {[1..n -> ExternalFiles] : n \in 0..MaxFiles}
    /\ files_read = 0 /\ log = <<>>
    /\ bronze_files = {} /\ cursor = <<>> /\ run_requests = <<>>

NextFiles == ReadCesExternalFile \/ Build

SpecFiles == InitFiles /\ [][NextFiles]_vars

\* main is started again on the same inputs and pull date; the tables of the
\* previous run are still on disk
Rerun ==
    /\ pc = "done"
    /\ pc' = "read"
    /\ UNCHANGED <<pull_date, pcd_raw, case_notes_raw, services_raw, ces_hmis_raw,
                   ces_external_raw, s, gold_client_program, gold_client>>
    /\ UNCHANGED <<loop_vars, sensor_vars>>

\* runs, and reruns, over enrollment tables of two rows
InitRerun ==
    /\ InitRun
    /\ pull_date = AlertPullDate
    /\ pcd_raw \in {<<r1 @@ [idx |-> 0], r2 @@ [idx |-> 1]>> : r1, r2 \in CollapseRows}
    /\ case_notes_raw = FixedCaseNotes /\ services_raw = FixedServices
    /\ ces_hmis_raw = FixedHmis /\ ces_external_raw = FixedExternal

NextRerun == Build \/ Rerun

SpecRerun == InitRerun /\ [][NextRerun]_vars

\* a file appears in Bronze/ProgramClientData
FileArrives(f) ==
    /\ f \notin bronze_files
    /\ bronze_files' = bronze_files \cup {f}
    /\ UNCHANGED <<cursor, run_requests, run_vars, loop_vars>>

\* a file is removed from Bronze/ProgramClientData
FileRemoved(f) ==
    /\ f \in bronze_files
    /\ bronze_files' = bronze_files \ {f}
    /\ UNCHANGED <<cursor, run_requests, run_vars, loop_vars>>

\* hmis_orchestrator.new_bronze_pull_date_sensor, one evaluation: a folder
\* without dated files raises, an old newest date returns, and otherwise the
\* sensor yields RunRequest(run_key=newest) and update_cursor(newest)
SensorEvaluation ==
    /\ LET newest == latest_pull_date_from_bronze(bronze_files)
       IN  IF IsNA(newest) \/ sensor_skips(cursor, Val(newest))
           THEN UNCHANGED <<cursor, run_requests>>
           ELSE /\ run_requests' = Append(run_requests, Val(newest))
                /\ cursor' = Val(newest)
    /\ UNCHANGED <<bronze_files, run_vars, loop_vars>>

InitSensor ==
    /\ InitRun
    /\ pull_date = AlertPullDate
    /\ pcd_raw = <<>> /\ case_notes_raw = <<>> /\ services_raw = <<>>
    /\ ces_hmis_raw = <<>> /\ ces_external_raw = <<>>

NextSensor ==
    \/ \E f \in BronzeFiles : FileArrives(f)
    \/ \E f \in BronzeFiles : FileRemoved(f)
    \/ SensorEvaluation

SpecSensor == InitSensor /\ [][NextSensor]_vars

\* =============================================================== claims
SilverBuilt == pc \in {"silver", "gold_fact", "done"}
FactBuilt == pc \in {"gold_fact", "done"}

Positions(t) == 1..Len(t)

\* the four ranking keys of section 4.2, read off a cleaned enrollment row
IsActive(r) == r.enrollment_active_in_project = YES
NotDeleted(r) == r.enrollment_deleted_flag # YES
Tenure(r) == IF IsNA(r.enrollment_days_in_project) THEN -1 ELSE Val(r.enrollment_days_in_project)
StartKey(r) == IF IsNA(r.Enrollments_Project_Start_Date) THEN -1
               ELSE Val(r.Enrollments_Project_Start_Date)
Bit(b) == IF b THEN 1 ELSE 0

\* a ranks strictly below b in the order activity, not-deleted, tenure, start date
RankBelow(a, b) ==
    \/ Bit(IsActive(a)) < Bit(IsActive(b))
    \/ /\ IsActive(a) = IsActive(b)
       /\ \/ Bit(NotDeleted(a)) < Bit(NotDeleted(b))
          \/ /\ NotDeleted(a) = NotDeleted(b)
             /\ \/ Tenure(a) < Tenure(b)
                \/ (Tenure(a) = Tenure(b) /\ StartKey(a) < StartKey(b))

RankEqual(a, b) ==
    /\ IsActive(a) = IsActive(b) /\ NotDeleted(a) = NotDeleted(b)
    /\ Tenure(a) = Tenure(b) /\ StartKey(a) = StartKey(b)

\* C1: the row choose_current_client_program selects for a key is maximal
\* among the key's rows in the order activity, not-deleted, tenure, start
\* date; with activity and deletion equal, the larger tenure wins over the
\* later start date.
C1_SelectsMaxRank ==
    SilverBuilt =>
        \A i \in Positions(s.pcd_current_client_program) :
            \A j \in Positions(s.pcd_clean) :
                SameKey(s.pcd_clean[j], s.pcd_current_client_program[i])
                    => ~RankBelow(s.pcd_current_client_program[i], s.pcd_clean[j])

\* C2: choose_current_client_program returns exactly one row per distinct
\* (client_id, program_name) of its input, and every returned row is a row of
\* the input.
C2_OneRowPerKey ==
    SilverBuilt =>
        /\ {KeyOf(s.pcd_current_client_program[i]) : i \in Positions(s.pcd_current_client_program)}
               = {KeyOf(s.pcd_clean[j]) : j \in Positions(s.pcd_clean)}
        /\ \A i, k \in Positions(s.pcd_current_client_program) :
               SameKey(s.pcd_current_client_program[i], s.pcd_current_client_program[k]) => i = k
        /\ \A i \in Positions(s.pcd_current_client_program) :
               s.pcd_current_client_program[i] \in Range(s.pcd_clean)

C2_Witness ==
    /\ pc = "silver"
    /\ Len(s.pcd_clean) = 3
    /\ Len(s.pcd_current_client_program) = 2

\* C3: the resolved row of a key is active whenever the key has an active
\* row, whatever the deletion flags, tenures and start dates; and when the
\* resolved row and another row of the key agree on activity, the resolved
\* row is not deleted whenever the other is not deleted.
C3_ActivityThenDeletion ==
    SilverBuilt =>
        \A i \in Positions(s.pcd_current_client_program) :
            \A j \in Positions(s.pcd_clean) :
                LET c == s.pcd_current_client_program[i]
                    r == s.pcd_clean[j]
                IN  SameKey(r, c) =>
                        /\ IsActive(r) => IsActive(c)
                        /\ (IsActive(r) = IsActive(c) /\ NotDeleted(r)) => NotDeleted(c)

\* an active deleted row wins over an inactive, not deleted row of larger
\* tenure and later start date
C3_Witness ==
    /\ pc = "silver"
    /\ \E i \in Positions(s.pcd_current_client_program) :
       \E j \in Positions(s.pcd_clean) :
           LET c == s.pcd_current_client_program[i]
               r == s.pcd_clean[j]
           IN  /\ SameKey(r, c)
               /\ IsActive(c) /\ ~NotDeleted(c)
               /\ ~IsActive(r) /\ NotDeleted(r)
               /\ Tenure(r) > Tenure(c) /\ StartKey(r) > StartKey(c)

\* the four ranking keys of section 4.7, read off a fact row
FactActive(r) == Upper(r.Enrollments_Active_in_Project) = YES
FactNotDeleted(r) == Upper(r.Enrollments_Deleted) # YES
FactTenure(r) == IF IsNumber(r.Enrollments_Days_in_Project) THEN Val(r.Enrollments_Days_in_Project) ELSE -1
FactStart(r) == IF IsNA(r.Enrollments_Project_Start_Date) THEN -1
                ELSE Val(r.Enrollments_Project_Start_Date)
FactRankEqual(a, b) ==
    /\ FactActive(a) = FactActive(b) /\ FactNotDeleted(a) = FactNotDeleted(b)
    /\ FactTenure(a) = FactTenure(b) /\ FactStart(a) = FactStart(b)

\* C4: a selected row is never preceded, in the input of the selection, by a
\* row of its group that equals it on all four ranking keys: in the
\* Deduplicator per (client_id, program_name) over the cleaned table, in the
\* Client Collapser per client_id over the fact table.
C4_StableTiebreak ==
    /\ SilverBuilt =>
          \A i \in Positions(s.pcd_current_client_program) :
              \A j, k \in Positions(s.pcd_clean) :
                  ( /\ s.pcd_clean[k] = s.pcd_current_client_program[i]
                    /\ SameKey(s.pcd_clean[j], s.pcd_clean[k])
                    /\ RankEqual(s.pcd_clean[j], s.pcd_clean[k]) ) => k <= j
    /\ pc = "done" =>
          \A i \in Positions(gold_client) :
              \A j, k \in Positions(gold_client_program) :
                  ( /\ gold_client_program[k] = gold_client[i]
                    /\ gold_client_program[j].client_id = gold_client_program[k].client_id
                    /\ FactRankEqual(gold_client_program[j], gold_client_program[k]) ) => k <= j

\* two tied rows of one key in the cleaned table, and two tied programme
\* rows of one client in the fact table
C4_Witness ==
    /\ pc = "done"
    /\ \E j, k \in Positions(s.pcd_clean) :
           /\ j < k /\ SameKey(s.pcd_clean[j], s.pcd_clean[k])
           /\ RankEqual(s.pcd_clean[j], s.pcd_clean[k])
           /\ s.pcd_clean[j] \in Range(s.pcd_current_client_program)
    /\ \E j, k \in Positions(gold_client_program) :
           /\ j < k /\ gold_client_program[j].client_id = gold_client_program[k].client_id
           /\ FactRankEqual(gold_client_program[j], gold_client_program[k])
           /\ gold_client_program[j] \in Range(gold_client)

\* the canonical key of a raw enrollment row, and the raw rows that pass the
\* programme exclusion
RawKey(r) == <<_canon_text(r.Clients_Unique_Identifier), _canon_text(r.Programs_Full_Name)>>
AllRaw == Positions(pcd_raw)
NotExcludedRaw == {i \in Positions(pcd_raw) : pcd_raw[i].Programs_Full_Name \notin EXCLUDE_PROGRAMS}

SameEnrollment(a, b) ==
    /\ RawKey(a) = RawKey(b)
    /\ a.Enrollments_Active_in_Project = b.Enrollments_Active_in_Project
    /\ a.Enrollments_Deleted = b.Enrollments_Deleted
    /\ a.Enrollments_Days_in_Project = b.Enrollments_Days_in_Project
    /\ a.Enrollments_Project_Start_Date = b.Enrollments_Project_Start_Date

DetailOfRaw(d, r) ==
    /\ KeyOf(d) = RawKey(r)
    /\ d.active_in_project = r.Enrollments_Active_in_Project
    /\ d.enrollment_deleted = r.Enrollments_Deleted
    /\ d.days_in_project = r.Enrollments_Days_in_Project
    /\ d.project_start_date = r.Enrollments_Project_Start_Date

\* over the raw rows P: a key with two or more rows has one summary entry
\* with their number, all of its rows in the detail table with that number,
\* and one fact row; a key with one row is in neither audit table
DedupComplete(P) ==
    LET summ == s.qa_enrollment_duplicates_summary
        det == s.qa_enrollment_duplicates_detail
        n(k) == Cardinality({i \in P : RawKey(pcd_raw[i]) = k})
    IN  \A k \in {RawKey(pcd_raw[i]) : i \in P} :
            IF n(k) >= 2
            THEN /\ Cardinality({j \in Positions(summ) : KeyOf(summ[j]) = k}) = 1
                 /\ \A j \in Positions(summ) : KeyOf(summ[j]) = k => summ[j].row_count = n(k)
                 /\ Cardinality({j \in Positions(det) : KeyOf(det[j]) = k}) = n(k)
                 /\ \A i \in P : RawKey(pcd_raw[i]) = k =>
                        Cardinality({j \in Positions(det) :
                            DetailOfRaw(det[j], pcd_raw[i]) /\ det[j].row_count = Some(n(k))})
                        = Cardinality({i2 \in P : SameEnrollment(pcd_raw[i2], pcd_raw[i])})
                 /\ Cardinality({j \in Positions(gold_client_program) :
                                    KeyOf(gold_client_program[j]) = k}) = 1
            ELSE /\ \A j \in Positions(summ) : KeyOf(summ[j]) # k
                 /\ \A j \in Positions(det) : KeyOf(det[j]) # k

C6_FactGrain ==
    FactBuilt =>
        LET spine == s.pcd_current_client_program
            ces == s.ces_unified_latest
        IN  /\ Len(gold_client_program) = Len(spine)
            /\ \A i \in Positions(gold_client_program) :
                   i <= Len(spine) => KeyOf(gold_client_program[i]) = KeyOf(spine[i])
            /\ \A i, j \in Positions(gold_client_program) :
                   SameKey(gold_client_program[i], gold_client_program[j]) => i = j
            /\ \A i \in Positions(gold_client_program) :
                   LET f == gold_client_program[i]
                       U == {j \in Positions(ces) : ces[j].client_id = f.client_id}
                   IN  /\ Cardinality(U) <= 1
                       /\ U = {} => /\ IsNA(f.Survey_Name) /\ IsNA(f.Assessment_Score)
                                    /\ IsNA(f.Latest_CES_Assessment_Date) /\ IsNA(f.CES_Source)
                       /\ \A j \in U : /\ f.Survey_Name = Some(ces[j].survey_name)
                                       /\ f.Assessment_Score = ces[j].assessment_score
                                       /\ f.Latest_CES_Assessment_Date = ces[j].assessment_date
                                       /\ f.CES_Source = Some(ces[j].ces_source)

\* two programme rows of one client carry the same external assessment, one
\* of them joined to a case-note snapshot, next to a client without one
C6_Witness ==
    /\ pc = "gold_fact"
    /\ \E i, j \in Positions(gold_client_program) :
           /\ i # j
           /\ gold_client_program[i].client_id = gold_client_program[j].client_id
           /\ gold_client_program[i].CES_Source = Some("EXTERNAL")
           /\ gold_client_program[j].CES_Source = Some("EXTERNAL")
           /\ ~IsNA(gold_client_program[i].case_notes_count)
           /\ IsNA(gold_client_program[j].services_count)
    /\ \E i \in Positions(gold_client_program) :
           gold_client_program[i].CES_Source = Some("HMIS")

\* the canonical (client_id, program_name, month) of a raw event row and the
\* sum of the count column over the first n raw rows of a triple
RawTriple(r) == <<_canon_text(r.Clients_Unique_Identifier), _canon_text(r.Programs_Full_Name),
                  _canon_text(r.Month)>>
RECURSIVE SumCounts(_, _, _)
SumCounts(raw, t, n) ==
    IF n = 0 THEN 0
    ELSE SumCounts(raw, t, n - 1)
         + (IF RawTriple(raw[n]) = t /\ ~IsNA(raw[n].Count) THEN Val(raw[n].Count) ELSE 0)

MonthlyOfRaw(monthly, raw, value_col) ==
    /\ {TripleOf(monthly[i]) : i \in Positions(monthly)} = {RawTriple(raw[j]) : j \in Positions(raw)}
    /\ \A i, j \in Positions(monthly) : TripleOf(monthly[i]) = TripleOf(monthly[j]) => i = j
    /\ \A i \in Positions(monthly) :
           monthly[i][value_col] = SumCounts(raw, TripleOf(monthly[i]), Len(raw))

\* C7: for an accepted event table, the monthly table of case notes and of
\* services has exactly one row per distinct (client_id, program_name, month)
\* of the input, no triple missing, and its count is the sum of the count
\* column over the input rows of the triple.
C7_MonthlySum ==
    SilverBuilt =>
        /\ MonthlyOfRaw(s.case_notes_monthly, case_notes_raw, "case_note_count")
        /\ MonthlyOfRaw(s.services_monthly, services_raw, "services_count")

\* two case-note rows of one triple are summed, next to a service row
C7_Witness ==
    /\ pc = "silver"
    /\ Len(case_notes_raw) = 2
    /\ Len(s.case_notes_monthly) = 1
    /\ s.case_notes_monthly[1].case_note_count = 4
    /\ Len(s.services_monthly) = 1

\* a month token and a reference date as a number of months
MonthNum(m) ==
    12 * ((m[1] - 48) * 1000 + (m[2] - 48) * 100 + (m[3] - 48) * 10 + (m[4] - 48))
    + (m[6] - 48) * 10 + (m[7] - 48)

\* latest holds, for each key of monthly, exactly the row of the greatest
\* month not after the month of ref, and no row when there is none
AsOfOfMonthly(latest, monthly, ref, value_col, prefix) ==
    /\ \A j \in Positions(latest) : \E i \in Positions(monthly) : SameKey(monthly[i], latest[j])
    /\ \A i0 \in Positions(monthly) :
           LET Q == {i \in Positions(monthly) :
                        /\ SameKey(monthly[i], monthly[i0])
                        /\ MonthNum(monthly[i].month) <= MonthNum(ref)}
               L == {j \in Positions(latest) : SameKey(latest[j], monthly[i0])}
           IN  IF Q = {} THEN L = {}
               ELSE /\ Cardinality(L) = 1
                    /\ \A j \in L : \E i \in Q :
                           /\ \A i2 \in Q : MonthNum(monthly[i2].month) <= MonthNum(monthly[i].month)
                           /\ latest[j][prefix \o "_month"] = monthly[i].month
                           /\ latest[j][prefix \o "_count"] = monthly[i][value_col]

\* C8: latest_month_asof_pull returns, for each (client_id, program_name),
\* exactly the row of the greatest month not after the reference date's
\* month, at most one row per key, and none for a key whose months are all
\* later.
C8_AsOfSelection ==
    SilverBuilt =>
        /\ AsOfOfMonthly(s.case_notes_latest, s.case_notes_monthly, pull_date,
                         "case_note_count", "case_notes")
        /\ AsOfOfMonthly(s.services_latest, s.services_monthly, pull_date,
                         "services_count", "services")

\* a key with a month before, a month in the year of and a month after the
\* reference month 2024-09
C8_Witness ==
    /\ pc = "silver"
    /\ pull_date = DateToken(2024, 9, 30)
    /\ Len(s.case_notes_monthly) = 3
    /\ Len(s.case_notes_latest) = 1
    /\ s.case_notes_latest[1].case_notes_month = MonthToken(2024, 2)

\* the months selected at r1 and at r2 >= r1: those at r2 are not after r2,
\* and a key selected at r1 is selected at r2 with a month that is not earlier
AsOfMonotone(at1, at2, r2, prefix) ==
    /\ \A j \in Positions(at2) : MonthNum(at2[j][prefix \o "_month"]) <= MonthNum(r2)
    /\ \A i \in Positions(at1) : \E j \in Positions(at2) :
           /\ SameKey(at1[i], at2[j])
           /\ MonthNum(at1[i][prefix \o "_month"]) <= MonthNum(at2[j][prefix \o "_month"])

\* C9: for the monthly tables of a run and reference dates r1 <= r2, one of
\* them the run's pull date: the month selected at r2 is not after month(r2),
\* a month selected at r1 is never later than the month selected at r2, and a
\* key selected at r1 is selected at r2.
C9_AsOfMonotone ==
    SilverBuilt =>
        \A r \in PullDates :
            LET cn == latest_month_asof_pull(s.case_notes_monthly, r, "case_note_count", "case_notes")
                sv == latest_month_asof_pull(s.services_monthly, r, "services_count", "services")
            IN  /\ _pull_date(r) <= _pull_date(pull_date) =>
                       /\ AsOfMonotone(cn, s.case_notes_latest, pull_date, "case_notes")
                       /\ AsOfMonotone(sv, s.services_latest, pull_date, "services")
                /\ _pull_date(pull_date) <= _pull_date(r) =>
                       /\ AsOfMonotone(s.case_notes_latest, cn, r, "case_notes")
                       /\ AsOfMonotone(s.services_latest, sv, r, "services")

\* the selection moves from 2024-02 at 2024-09-30 to 2024-10 at 2024-10-01
C9_Witness ==
    /\ pc = "silver"
    /\ pull_date = DateToken(2024, 10, 1)
    /\ Len(s.case_notes_latest) = 1
    /\ s.case_notes_latest[1].case_notes_month = MonthToken(2024, 10)
    /\ LET at1 == latest_month_asof_pull(s.case_notes_monthly, DateToken(2024, 9, 30),
                                         "case_note_count", "case_notes")
       IN  Len(at1) = 1 /\ at1[1].case_notes_month = MonthToken(2024, 2)

\* C10: the unified table has exactly one row per client_id of either
\* latest-assessment table; a client of the external table gets its external
\* row, field by field, tagged EXTERNAL, with every other column absent; any
\* other client gets its HMIS row tagged HMIS.
C10_SourceOverride ==
    SilverBuilt =>
        LET ext == s.ces_external_latest
            hmis == s.ces_hmis_latest
            u == s.ces_unified_latest
        IN  /\ {u[i].client_id : i \in Positions(u)}
                   = {ext[i].client_id : i \in Positions(ext)}
                     \cup {hmis[i].client_id : i \in Positions(hmis)}
            /\ \A i, j \in Positions(u) : u[i].client_id = u[j].client_id => i = j
            /\ \A i \in Positions(u) :
                   IF \E e \in Positions(ext) : ext[e].client_id = u[i].client_id
                   THEN /\ \E e \in Positions(ext) :
                               \A c \in ExternalCols : u[i][c] = ext[e][c]
                        /\ u[i].ces_source = "EXTERNAL"
                        /\ \A c \in (DOMAIN u[i]) \ ExternalCols : IsNA(u[i][c])
                   ELSE /\ \E h \in Positions(hmis) :
                               \A c \in DOMAIN hmis[h] : u[i][c] = hmis[h][c]
                        /\ u[i].ces_source = "HMIS"

\* a client with an external score 10 and an HMIS score 99, and a client
\* with an HMIS row only
C10_Witness ==
    /\ pc = "silver"
    /\ Len(s.ces_unified_latest) = 2
    /\ \E e \in Positions(s.ces_external_latest) : \E h \in Positions(s.ces_hmis_latest) :
           /\ s.ces_external_latest[e].client_id = s.ces_hmis_latest[h].client_id
           /\ s.ces_external_latest[e].assessment_score = Some(10)
           /\ s.ces_hmis_latest[h].assessment_score = Some(99)
    /\ \E i \in Positions(s.ces_unified_latest) : s.ces_unified_latest[i].ces_source = "HMIS"

\* C11: when either latest-assessment table is empty, the unified table holds
\* the rows of the other table unchanged, and its columns are the union of the
\* two tables' columns, the columns the non-empty table lacks being absent
\* cells (the schema of the non-degenerate case).
C11_DegenerateUnion ==
    (SilverBuilt /\ (Len(s.ces_external_latest) = 0 \/ Len(s.ces_hmis_latest) = 0)) =>
        LET other == IF Len(s.ces_external_latest) = 0 THEN s.ces_hmis_latest
                     ELSE s.ces_external_latest
            u == s.ces_unified_latest
            cols == ExternalCols \cup HmisCols
        IN  /\ Len(u) = Len(other)
            /\ \A i \in Positions(u) :
                   /\ DOMAIN u[i] = cols
                   /\ \A c \in DOMAIN other[i] : u[i][c] = other[i][c]
                   /\ \A c \in cols \ DOMAIN other[i] : IsNA(u[i][c])

\* the inputs of the business rules, read off a fact row: the tenure (absent
\* unless the cell is a number), documents-ready, an expired or missing
\* assessment, the threshold of the survey name, the score
HasTenure(f) == IsNumber(f.Enrollments_Days_in_Project)
TenureOf(f) == Val(f.Enrollments_Days_in_Project)
DocsReady(f) == f.Document_Ready = DOCUMENT_READY
ExpiredOrNotDone(f) ==
    f.CES_Status \in {"Over 2 Years, Review for life change", "Assessment Not Done"}
ThresholdOf(f) ==
    IF IsNA(f.Survey_Name) THEN NA
    ELSE IF _contains(Val(f.Survey_Name), CES) THEN Some(8)
    ELSE IF Val(f.Survey_Name) = LA_HAT THEN Some(17)
    ELSE NA
ScorePresent(f) == IsNumber(f.Assessment_Score)
BelowThreshold(f) ==
    ~IsNA(ThresholdOf(f)) /\ ScorePresent(f) /\ Val(f.Assessment_Score) < Val(ThresholdOf(f))

\* the first matching rule of the intervention alert
FirstMatchingAlert(f) ==
    LET long == HasTenure(f) /\ TenureOf(f) >= 120
        mid == HasTenure(f) /\ 75 <= TenureOf(f) /\ TenureOf(f) < 120
    IN  IF long /\ ~DocsReady(f) THEN ">=120 days & missing docs - ESCALATE"
        ELSE IF long /\ ExpiredOrNotDone(f)
             THEN ">=120 days in interim housing & CES assessment >2 years old - ESCALATE for review"
        ELSE IF long /\ BelowThreshold(f) THEN ">=120 days & score below threshold - ESCALATE"
        ELSE IF long THEN ">=120 days & docs/assessment OK - monitor"
        ELSE IF mid /\ ~DocsReady(f) THEN "75-119 days & missing docs - ACTION"
        ELSE IF mid /\ (ExpiredOrNotDone(f) \/ BelowThreshold(f))
             THEN "75-119 days & assessment risk - ACTION"
        ELSE "No Action Needed"

\* C12: the intervention alert of every fact row is the first matching rule
\* of the order missing-docs escalation, assessment escalation, score
\* escalation, monitor (tenure >= 120), missing-docs action, assessment-risk
\* action (75 <= tenure < 120), and otherwise, also with an absent or
\* unparseable tenure, No Action Needed.
C12_AlertPrecedence ==
    FactBuilt =>
        \A i \in Positions(gold_client_program) :
            gold_client_program[i].Intervention_Alert = FirstMatchingAlert(gold_client_program[i])

\* C13: a fact row is Housing Matching Ready exactly when its documents are
\* ready, its survey name has a threshold (8 for a name that contains CES in
\* any case, 17 for the exact LA HAT name), its score is present and the
\* score is at least the threshold.
C13_HousingMatchingReady ==
    FactBuilt =>
        \A i \in Positions(gold_client_program) :
            LET f == gold_client_program[i]
                ready == /\ DocsReady(f)
                         /\ ~IsNA(ThresholdOf(f))
                         /\ ScorePresent(f)
                         /\ Val(f.Assessment_Score) >= Val(ThresholdOf(f))
            IN  /\ f.Housing_Matching_Ready \in {"Housing Matching Ready", "Not Housing Matching Ready"}
                /\ (f.Housing_Matching_Ready = "Housing Matching Ready") <=> ready

\* a row on the boundary: a CES survey in lower case with score 8, documents ready
C13_Witness ==
    /\ FactBuilt
    /\ \E i \in Positions(gold_client_program) :
           /\ gold_client_program[i].Survey_Name = Some(Lower(SurveyCES))
           /\ gold_client_program[i].Assessment_Score = Some(8)
           /\ gold_client_program[i].Document_Ready = DOCUMENT_READY
           /\ gold_client_program[i].Housing_Matching_Ready = "Housing Matching Ready"

\* C14: the tier of a fact row is Tier 1 below 60 days, Tier 2 from 60 to
\* 120, Tier 3 above 120 up to 365, Tier 4 above 365, and a row whose tenure
\* is absent (NaN or not a number) has no tier.
C14_TenureTier ==
    FactBuilt =>
        \A i \in Positions(gold_client_program) :
            LET f == gold_client_program[i]
            IN  f.Enrollment_Days_Tier =
                    IF ~HasTenure(f) THEN NA
                    ELSE IF TenureOf(f) < 60 THEN Some("Tier 1 - <60 Days")
                    ELSE IF TenureOf(f) <= 120 THEN Some("Tier 2 - 60-120 Days")
                    ELSE IF TenureOf(f) <= 365 THEN Some("Tier 3 - 120-365 Days")
                    ELSE Some("Tier 4 - >365 Days")

\* the label of the homelessness-verification flag: "Homelessness Verification"
HOMELESSNESS_LABEL ==
    <<72, 111, 109, 101, 108, 101, 115, 115, 110, 101, 115, 115, 32, 86, 101, 114,
    105, 102, 105, 99, 97, 116, 105, 111, 110>>

\* the labels of the flags and fields of a fact row that are absent, in the
\* order of the flags
AbsentLabels(f) ==
    (IF f.SSN_Card = 0 THEN <<MISSING_LABELS[1]>> ELSE <<>>)
    \o (IF f.CDL_or_State_ID = 0 THEN <<MISSING_LABELS[2]>> ELSE <<>>)
    \o (IF f.Homelessness_Verification = 0 THEN <<HOMELESSNESS_LABEL>> ELSE <<>>)
    \o (IF f.Disability_Verification = 0 THEN <<MISSING_LABELS[3]>> ELSE <<>>)
    \o (IF f.Health_Insurance_Column_Flag = FLAG_NONE THEN <<MISSING_LABELS[4]>> ELSE <<>>)
    \o (IF f.Proof_of_Income = FLAG_NONE THEN <<MISSING_LABELS[5]>> ELSE <<>>)

\* C15: the missing-documents summary of a fact row lists, in a fixed order,
\* the label of every flag that is 0 (the homelessness-verification flag
\* included) and of every multi-valued field that is "0", and it is "All
\* documents present" exactly when no flag or field is absent.
C15_MissingDocuments ==
    FactBuilt =>
        \A i \in Positions(gold_client_program) :
            LET f == gold_client_program[i]
            IN  /\ (f.Missing_Documents = ALL_DOCUMENTS_PRESENT) <=> (AbsentLabels(f) = <<>>)
                /\ AbsentLabels(f) # <<>> => f.Missing_Documents = Join(AbsentLabels(f))

\* the labels of the rules with an index in K, joined in ascending rule order
RECURSIVE JoinRules(_, _)
JoinRules(K, rules) ==
    LET k == CHOOSE x \in K : \A y \in K : x <= y
    IN  IF K = {k} THEN rules[k][2]
        ELSE rules[k][2] \o <<44, 32>> \o JoinRules(K \ {k}, rules)

\* the value of a multi-valued field for a text
FieldOf(txt, rules) ==
    LET K == {k \in 1..Len(rules) : _contains(txt, rules[k][1])}
    IN  IF K = {} THEN FLAG_NONE ELSE FLAG_PREFIX \o JoinRules(K, rules)

\* C16: the health-coverage and the income-proof field of a fact row are
\* "1 - " followed by the comma-joined labels of every rule whose pattern
\* occurs in the file list, in rule order wherever the patterns stand in the
\* text, and "0" exactly when no pattern of the field occurs.
C16_MultiValuedFlags ==
    FactBuilt =>
        \A i \in Positions(gold_client_program) :
            LET f == gold_client_program[i]
                txt == _s(f.List_of_Client_File_Name)
            IN  /\ f.Health_Insurance_Column_Flag = FieldOf(txt, HEALTH_RULES)
                /\ f.Proof_of_Income = FieldOf(txt, INCOME_RULES)

\* a file list that names Tax Return before Pay Stub gives "1 - Pay Stub, Tax
\* Return", and one without a health pattern gives "0"
C16_Witness ==
    /\ FactBuilt
    /\ \E i \in Positions(gold_client_program) :
           /\ StartsWith(_s(gold_client_program[i].List_of_Client_File_Name), INCOME_RULES[11][1])
           /\ gold_client_program[i].Proof_of_Income =
                  FLAG_PREFIX \o INCOME_RULES[1][2] \o <<44, 32>> \o INCOME_RULES[11][2]
           /\ gold_client_program[i].Health_Insurance_Column_Flag = FLAG_NONE

\* C17: a fact row is Document Ready exactly when its SSN-card flag is 1, its
\* identification-card flag is 1 and its income-proof field starts with "1",
\* whatever the health-coverage, disability and homelessness flags are.
C17_DocumentReady ==
    FactBuilt =>
        \A i \in Positions(gold_client_program) :
            LET f == gold_client_program[i]
            IN  /\ f.Document_Ready \in {DOCUMENT_READY, NOT_DOCUMENT_READY}
                /\ (f.Document_Ready = DOCUMENT_READY) <=>
                       (/\ f.SSN_Card = 1
                        /\ f.CDL_or_State_ID = 1
                        /\ StartsWith(f.Proof_of_Income, <<49>>))

\* ready with the three documents and none of the health, disability and
\* homelessness documents; and not ready with all documents but the income proof
C17_Witness ==
    /\ FactBuilt
    /\ \E i \in Positions(gold_client_program) :
           /\ gold_client_program[i].Document_Ready = DOCUMENT_READY
           /\ gold_client_program[i].Health_Insurance_Column_Flag = FLAG_NONE
           /\ gold_client_program[i].Disability_Verification = 0
           /\ gold_client_program[i].Homelessness_Verification = 0

\* str.upper() on the ASCII and Latin-1 letters
UpperCase(t) ==
    [i \in 1..Len(t) |->
        IF (t[i] >= 97 /\ t[i] <= 122) \/ (t[i] >= 224 /\ t[i] <= 254 /\ t[i] # 247)
        THEN t[i] - 32 ELSE t[i]]

\* the text with every plain apostrophe written as a
WithApostrophe(t, a) == Replace(t, APOSTROPHE, a)

\* the UTF-8 bytes of the curly apostrophe read as ISO-8859-1
LATIN1_APOSTROPHE == <<226, 128, 153>>

\* the flags and fields a fact row carries
FlagsOfRow(f) ==
    [SSN_Card |-> f.SSN_Card,
     CDL_or_State_ID |-> f.CDL_or_State_ID,
     Homelessness_Verification |-> f.Homelessness_Verification,
     Disability_Verification |-> f.Disability_Verification,
     Health_Insurance_Column_Flag |-> f.Health_Insurance_Column_Flag,
     Proof_of_Income |-> f.Proof_of_Income,
     Document_Ready |-> f.Document_Ready,
     Missing_Documents |-> f.Missing_Documents]

\* every text of V gets the flags and fields of the fact row
SameFlags(f, V) == \A v \in V : _doc_flags_from_file_list(Some(v)) = FlagsOfRow(f)

FactRankBelow(a, b) ==
    \/ Bit(FactActive(a)) < Bit(FactActive(b))
    \/ /\ FactActive(a) = FactActive(b)
       /\ \/ Bit(FactNotDeleted(a)) < Bit(FactNotDeleted(b))
          \/ /\ FactNotDeleted(a) = FactNotDeleted(b)
             /\ \/ FactTenure(a) < FactTenure(b)
                \/ (FactTenure(a) = FactTenure(b) /\ FactStart(a) < FactStart(b))

\* C19: the client table has exactly one row per client_id of the fact
\* table, that row is a fact row of the client, and no fact row of the client
\* ranks above it in the order activity, not-deleted, tenure (absent as -1),
\* start date (absent lowest).
C19_ClientCollapse ==
    pc = "done" =>
        /\ {gold_client[i].client_id : i \in Positions(gold_client)}
               = {gold_client_program[j].client_id : j \in Positions(gold_client_program)}
        /\ \A i, k \in Positions(gold_client) :
               gold_client[i].client_id = gold_client[k].client_id => i = k
        /\ \A i \in Positions(gold_client) :
               /\ gold_client[i] \in Range(gold_client_program)
               /\ \A j \in Positions(gold_client_program) :
                      gold_client_program[j].client_id = gold_client[i].client_id
                          => ~FactRankBelow(gold_client[i], gold_client_program[j])

\* a client active in one programme with tenure 5 and inactive in another
\* with tenure 10 collapses to the active row
C19_Witness ==
    /\ pc = "done"
    /\ Len(gold_client) = 1
    /\ FactActive(gold_client[1]) /\ FactTenure(gold_client[1]) = 5
    /\ \E j \in Positions(gold_client_program) :
           /\ gold_client_program[j].client_id = gold_client[1].client_id
           /\ gold_client_program[j].program_name # gold_client[1].program_name
           /\ ~FactActive(gold_client_program[j])
           /\ FactTenure(gold_client_program[j]) = 10

\* the documented canonical form of an identifier: byte-order marks,
\* zero-width spaces and non-breaking spaces removed, every run of whitespace
\* collapsed to one space, leading and trailing whitespace dropped
CanonicalKey(t) ==
    LET bare == SelectSeq(t, LAMBDA c : c \notin {BOM, ZERO_WIDTH_SPACE[1], NO_BREAK_SPACE[1]})
        trimmed == Strip(bare)
        kept == {i \in 1..Len(trimmed) : ~(IsSpace(trimmed[i]) /\ IsSpace(trimmed[i - 1]))}
        nth(k) == CHOOSE i \in kept : Cardinality({j \in kept : j <= i}) = k
    IN  [k \in 1..Cardinality(kept) |->
            IF IsSpace(trimmed[nth(k)]) THEN SPACE[1] ELSE trimmed[nth(k)]]

\* C20: two enrollment rows whose raw client ids (programme names) differ
\* only by byte-order marks, zero-width spaces, non-breaking spaces, runs of
\* whitespace or leading/trailing whitespace carry the same client_id
\* (program_name) key in the cleaned table.
C20_Canonicalization ==
    pc = "silver" =>
        \A a, b \in Range(s.pcd_clean) :
            /\ CanonicalKey(a.Clients_Unique_Identifier) = CanonicalKey(b.Clients_Unique_Identifier)
                   => a.client_id = b.client_id
            /\ CanonicalKey(a.Programs_Full_Name) = CanonicalKey(b.Programs_Full_Name)
                   => a.program_name = b.program_name

\* a raw month cell that, canonicalised, is not four digits, a hyphen and two
\* digits (an absent month included)
InvalidMonth(cell) ==
    LET t == _canon_text(cell)
    IN  ~(/\ Len(t) = 7
          /\ t[5] = 45
          /\ \A i \in {1, 2, 3, 4, 6, 7} : t[i] \in 48..57)

HasInvalidMonth(raw) == \E i \in Positions(raw) : InvalidMonth(raw[i].Month)

\* C21: once the run has left the reading step with an invalid month token in
\* the case-note or the service table, the run has failed and no silver
\* table, fact table or client table exists.
C21_InvalidMonthFatal ==
    (pc # "read" /\ (HasInvalidMonth(case_notes_raw) \/ HasInvalidMonth(services_raw)))
        => /\ pc = "failed"
           /\ s = NoSilver
           /\ gold_client_program = <<>>
           /\ gold_client = <<>>

\* a run failed on a service table whose second row has an absent month,
\* the case-note table being valid
C21_Witness ==
    /\ pc = "failed"
    /\ Len(services_raw) = 2
    /\ ~InvalidMonth(services_raw[1].Month)
    /\ services_raw[2].Month = NA
    /\ Len(case_notes_raw) = 1
    /\ ~HasInvalidMonth(case_notes_raw)

\* an input table lacks a column the pipeline needs
MissingColumn ==
    \/ missing_columns(pcd_raw, PCD_REQUIRED \cup {"Enrollments_Days_in_Project"})
    \/ missing_columns(case_notes_raw, EVENT_REQUIRED)
    \/ missing_columns(services_raw, EVENT_REQUIRED)

\* C22: a run that has failed on an input that lacks a needed column has
\* produced no output table: no silver table, no fact table, no client table.
C22_MissingColumnFailFast ==
    (pc = "failed" /\ MissingColumn)
        => /\ s = NoSilver
           /\ gold_client_program = <<>>
           /\ gold_client = <<>>

\* the (client_id, program_name, month) triples that occur on more than one
\* row of a raw event table
DuplicateTriples(raw) ==
    LET df == event_canon(raw)
    IN  {TripleOf(df[i]) : i \in {i \in Positions(df) :
                                     \E j \in Positions(df) : j # i /\ TripleOf(df[j]) = TripleOf(df[i])}}

ReportTriples(report) == {TripleOf(report[i]) : i \in Positions(report)}

\* the case-note half of C23
CaseNoteReportExact ==
    pc = "silver" => ReportTriples(s.qa_case_notes_duplicates) = DuplicateTriples(case_notes_raw)

\* C23: the silver outputs carry a duplicate-input report for the case notes
\* and one for the services, each holding exactly the triples that occur on
\* more than one raw row of its dataset.
C23_DuplicateReports ==
    pc = "silver" =>
        /\ ReportTriples(s.qa_case_notes_duplicates) = DuplicateTriples(case_notes_raw)
        /\ "qa_services_duplicates" \in DOMAIN s
        /\ ReportTriples(s.qa_services_duplicates) = DuplicateTriples(services_raw)

NonNegative(table, count_col) == \A i \in Positions(table) : table[i][count_col] >= 0

\* C24: every row of the monthly tables and of the as-of snapshots built
\* from accepted event tables has a count >= 0.
C24_NonNegativeCounts ==
    pc = "silver" =>
        /\ NonNegative(s.case_notes_monthly, "case_note_count")
        /\ NonNegative(s.services_monthly, "services_count")
        /\ NonNegative(s.case_notes_latest, "case_notes_count")
        /\ NonNegative(s.services_latest, "services_count")

\* the age in days of the assessment of fact row f on the reference date
AssessmentAge(f) == _pull_date(pull_date) - Val(f.Latest_CES_Assessment_Date)

\* C25: a fact row's assessment status is "Assessment Not Done" exactly when
\* it has no assessment date, "Over 2 Years, Review for life change" exactly
\* when the assessment is more than 730 days older than the reference date,
\* and "Current" otherwise.
C25_AssessmentStatus ==
    pc \in {"gold_fact", "done"} =>
        \A i \in Positions(gold_client_program) :
            LET f == gold_client_program[i]
            IN  /\ f.Assessment_Status = f.CES_Status
                /\ f.Assessment_Status =
                       IF IsNA(f.Latest_CES_Assessment_Date) THEN "Assessment Not Done"
                       ELSE IF AssessmentAge(f) > 730 THEN "Over 2 Years, Review for life change"
                       ELSE "Current"

\* a fact row whose assessment is exactly 730 days old is Current
C25_Witness ==
    /\ pc = "done"
    /\ \E i \in Positions(gold_client_program) :
           /\ ~IsNA(gold_client_program[i].Latest_CES_Assessment_Date)
           /\ AssessmentAge(gold_client_program[i]) = 730
           /\ gold_client_program[i].Assessment_Status = "Current"

\* C28: a fact row with documents ready, assessment status Current, a
\* defined threshold and an absent score gets the monitor alert at tenure
\* >= 120 and No Action Needed at tenure in [75, 120): the absent score is
\* not counted as below threshold.
C28_AbsentScoreNotBelow ==
    FactBuilt =>
        \A i \in Positions(gold_client_program) :
            LET f == gold_client_program[i]
            IN  (/\ HasTenure(f) /\ DocsReady(f) /\ ~ExpiredOrNotDone(f)
                 /\ ~IsNA(ThresholdOf(f)) /\ ~ScorePresent(f))
                    => /\ TenureOf(f) >= 120
                           => f.Intervention_Alert = ">=120 days & docs/assessment OK - monitor"
                       /\ (75 <= TenureOf(f) /\ TenureOf(f) < 120)
                           => f.Intervention_Alert = "No Action Needed"

NoExcludedProgram(table) == \A i \in Positions(table) : table[i].program_name \notin EXCLUDE_PROGRAMS

\* C30: no row of the cleaned enrollment table, of the resolved spine or of
\* the fact table has a canonical program_name in the excluded-program set.
C30_ProgramExclusion ==
    SilverBuilt =>
        /\ NoExcludedProgram(s.pcd_clean)
        /\ NoExcludedProgram(s.pcd_current_client_program)
        /\ NoExcludedProgram(gold_client_program)

\* a second execution on the inputs of a completed one is under way: the
\* client table of the first execution exists and the run is not done
Rerunning == pc # "done" /\ gold_client # <<>>

ReadableRows == Concat([i \in Positions(ces_external_files) |->
                    IF ces_external_files[i].readable THEN ces_external_files[i].rows ELSE <<>>])

Unreadable == {i \in Positions(ces_external_files) : ~ces_external_files[i].readable}

\* the half of C27 about skipping and merging: a run with unreadable files
\* merges the rows of every readable file, and every run can complete
SkipsAndMerges ==
    /\ pc \in {"silver", "gold_fact", "done"} => ces_external_raw = ReadableRows
    /\ pc # "failed"

\* C27: a completed run has merged the rows of every readable external
\* assessment file and has a log entry for every file it could not read.
C27_UnreadableSourceLogged ==
    pc = "done" =>
        /\ ces_external_raw = ReadableRows
        /\ \A i \in Unreadable : \E k \in Positions(log) : log[k] = i

\* the calendar number of a date token
DateNumber(d) ==
    LET n(i) == d[i] - 48
    IN  (n(1) * 1000 + n(2) * 100 + n(3) * 10 + n(4)) * 10000
            + (n(6) * 10 + n(7)) * 100 + n(9) * 10 + n(10)

\* the newest pull date among the files, by calendar order
NewestInBronze(files) ==
    CHOOSE d \in bronze_dates(files) : \A e \in bronze_dates(files) : DateNumber(e) <= DateNumber(d)

\* C29: in every step, the sensor emits a run request only for the newest
\* pull date in Bronze and only when that date is strictly greater than the
\* cursor or the cursor is empty; the cursor never decreases; and no pull
\* date is requested twice.
C29_SensorCursor ==
    [][/\ run_requests' # run_requests
           => /\ bronze_dates(bronze_files) # {}
              /\ run_requests' = Append(run_requests, NewestInBronze(bronze_files))
              /\ cursor = <<>> \/ DateNumber(NewestInBronze(bronze_files)) > DateNumber(cursor)
       /\ cursor # <<>> => (cursor' # <<>> /\ DateNumber(cursor') >= DateNumber(cursor))
       /\ \A i, k \in Positions(run_requests') : run_requests'[i] = run_requests'[k] => i = k]_vars

\* two pull dates were requested, the newest file was then removed, and the
\* newest pull date left in Bronze is older than the cursor
C29_Witness ==
    /\ Len(run_requests) = 2
    /\ bronze_dates(bronze_files) # {}
    /\ DateNumber(NewestInBronze(bronze_files)) < DateNumber(cursor)
    /\ \E f \in bronze_files : IsNA(_parse_date(f))

====
